---- MODULE Spec2Model ----
(***************************************************************************)
(* A model of AppWaffle's pointer-driven drag-and-drop core:               *)
(*   PointerTracker, GhostElement, SlotDetection, GridTransforms,          *)
(*   DragEngine (lib/helper-dnd, lib/dnd), DragCoordinator (handoff) and   *)
(*   the folder-creation policy (useFolderCreation).                       *)
(*                                                                         *)
(* Every method of the program is a pure operator from a "world" record    *)
(* (all fields of all objects) to the world after the call; an action of   *)
(* the model is one browser task (an event handler, a timer callback, the  *)
(* resumption of an awaited promise) and composes the operators in the     *)
(* order the code calls them.                                              *)
(***************************************************************************)
EXTENDS Integers, Sequences, FiniteSets, TLC

\* ------------------------------------------------------------------------
\* Bounds of the model (sizes of the rendered scene and of the input sets)
\* ------------------------------------------------------------------------
HalfW == 50          \* half of a rendered item's width  (px)
HalfH == 60          \* half of a rendered item's height (px)
Gap == 20            \* gap between rendered items (px)
Near == 10           \* distance of the "just before / just past" pointer samples
FolderTop == 400     \* top of the folder modal's container on screen (px)
MaxGhosts == 2       \* ghost element identities available at the same time
MaxPending == 1      \* drop animations pending on one engine at the same time
MaxCalls == 2        \* handoff() calls in flight at the same time
HandoffGestures == 1 \* pointerdown events of one behaviour of the handoff scenes
DropGestures == 2    \* pointerdown events of one behaviour of the drop scenes
DragGestures == 1
FolderGestures == 2    \* pointerdown events of one behaviour of the reorder scenes
ActivationGestures == 2  \* pointerdown events of one behaviour of the activation scenes
RegrabGestures == 2      \* pointerdown events of one behaviour of the regrab scenes
RejectGestures == 1      \* pointerdown events of one behaviour of the rejection scenes
DwellTicks == 3      \* folderCreationDelay, in ticks of the model's clock
MaxTimers == 2       \* setTimeout callbacks pending at the same time
MaxNewFolders == 2   \* folders created in one behaviour of the folder scenes
RatioBelow == 50     \* an overlap ratio below the threshold (percent)
RatioAbove == 80     \* an overlap ratio above the threshold (percent)

NULL == "null"            \* null, where the value is a string (an id, an element)
NIL == [nil |-> TRUE]     \* null, where the value is a record (a DragState, a Point)

\* The app's two grids, and a third one registered through the same API
Grids == {"main-grid", "folder-modal", "side-grid"}
MainItems == <<"a", "b", "c", "d">>
FolderItems == <<"x", "y">>
ItemIds == {"a", "b", "c", "d", "x", "y"}
GhostNames == <<"ghost1", "ghost2", "ghost3", "ghost4">>
GhostIds == {GhostNames[i] : i \in 1..MaxGhosts}

\* ------------------------------------------------------------------------
\* Arithmetic helpers
\* ------------------------------------------------------------------------
Abs(n) == IF n < 0 THEN -n ELSE n
Min(a, b) == IF a < b THEN a ELSE b
Max(a, b) == IF a > b THEN a ELSE b
Pt(px, py) == [x |-> px, y |-> py]

SeqToSet(s) == {s[i] : i \in 1..Len(s)}
\* Array.prototype.findIndex / indexOf, 0-based, -1 when absent
IndexOf(s, e) == IF \E i \in 1..Len(s) : s[i] = e
                 THEN (CHOOSE i \in 1..Len(s) : s[i] = e /\ \A j \in 1..(i-1) : s[j] # e) - 1
                 ELSE -1

\* ------------------------------------------------------------------------
\* Program constants
\* ------------------------------------------------------------------------
IconSize == 96               \* SlotDetection.calculateLayout: iconSize
ACTIVATION_DISTANCE == 5     \* PointerTracker.ACTIVATION_DISTANCE
OverlapThreshold == 60       \* DEFAULT_DND_SETTINGS.overlapThreshold (0.6), in percent

\* ------------------------------------------------------------------------
\* The rendered scene: every container lays its draggable items out as a
\* uniform grid of `c` columns, in DOM order.
\* ------------------------------------------------------------------------
ItemW == 2 * HalfW
ItemH == 2 * HalfH
CellW == ItemW + Gap
CellH == ItemH + Gap
OriginX(g) == 0
OriginY(g) == IF g = "folder-modal" THEN FolderTop
              ELSE IF g = "side-grid" THEN 2 * FolderTop ELSE 0
\* getBoundingClientRect() of the i-th (0-based) draggable element of container g
ItemLeft(g, c, i) == OriginX(g) + (i % c) * CellW
ItemTop(g, c, i) == OriginY(g) + (i \div c) * CellH
\* getBoundingClientRect() of container g: it spans its columns and two rows
ContainerRect(g, c) ==
  [left |-> OriginX(g), top |-> OriginY(g),
   right |-> OriginX(g) + c * CellW, bottom |-> OriginY(g) + 2 * CellH]

VARIABLES
  dom,           \* [Grids -> Seq(ItemIds)]: draggable elements of each container, DOM order
  cols,          \* [Grids -> Nat]: columns of each container's layout
  state,         \* DragEngine.state: DragState or NULL
  events,        \* DragEngine.events: TRUE while the host's handlers are subscribed
  ghost,         \* GhostElement.element: a ghost element or NULL
  offset,        \* GhostElement.offset (of the ghost's center from the pointer)
  ghostPos,      \* [GhostIds -> Point]: rendered center of each ghost element (its transform)
  body,          \* ghost elements that are children of document.body
  removed,       \* [GhostIds -> 0..2]: remove() calls made on each ghost element (2: two or more)
  items,         \* GridTransforms.items: the cached GridItems
  tf,            \* [Grids -> [ItemIds -> Transform]]: style.transform of each item element
  slot,          \* SlotDetection's fields
  tracker,       \* PointerTracker's fields
  pending,       \* [Grids -> Seq]: handleDragEnd calls suspended at `await animateTo`
  emitted,       \* events emitted to the host by the last task, in order
  pointerDown,   \* the physical pointer is pressed
  gestures,      \* pointerdown events so far
  registered,    \* DragCoordinator.grids (its keys)
  activeGridId,  \* DragCoordinator.activeGridId
  isHandingOff,  \* DragCoordinator.isHandingOff
  calls,         \* handoff() calls suspended at an await
  returned,      \* handoff() calls that resolved in the last task, with their results
  lastCall,      \* the call the last task made on GridTransforms directly, or on a host handler
  activeId,      \* useDragGrid's activeId state: the dragged item, NULL when none
  dropTarget,    \* useFolderCreation's dropTarget state
  hoverRef,      \* useFolderCreation's hoverRef.current
  timers,        \* pending setTimeout callbacks of useFolderCreation
  hovered,       \* the app the dragged app has been over since `since` ticks, as the
                 \* move events of the drag reported it (NIL: none)
  over,          \* the overlap findHighestOverlap finds where the dragged item is
                 \* (NIL: none, or no drag)
  drop,          \* the drop of the last drag, from pointer release on: the dropped item,
                 \* the overlap at the drop, the answer of getDropAnimationTarget and
                 \* the engine's fromIndex/toIndex (NIL: none)
  localFolders,  \* useFolders' folders state: the folders set since the app started
  configFolders, \* orderConfig.folders: the folders of the configuration that was loaded
  openFolder     \* useGrid's openFolder state: [id, apps] of the modal's folder, or NIL

engineVars == <<state, events, ghost, offset, ghostPos, body, removed, items, tf, slot,
                tracker, pending>>
coordVars == <<registered, activeGridId, isHandingOff, calls>>
hostVars == <<dom, cols, pointerDown, gestures>>
outVars == <<emitted, returned, lastCall>>
policyVars == <<activeId, dropTarget, hoverRef, timers, hovered, over, drop>>
gridVars == <<localFolders, configFolders, openFolder>>

NoCall == [name |-> "none", a |-> 0, b |-> 0, shifted |-> FALSE]

\* The world: every field above, as one record the program's methods transform.
World ==
  [dom |-> dom, cols |-> cols, state |-> state, events |-> events, ghost |-> ghost,
   offset |-> offset, ghostPos |-> ghostPos, body |-> body, removed |-> removed,
   items |-> items, tf |-> tf, slot |-> slot, tracker |-> tracker, pending |-> pending,
   emitted |-> <<>>, pointerDown |-> pointerDown, gestures |-> gestures,
   registered |-> registered,
   activeGridId |-> activeGridId, isHandingOff |-> isHandingOff, calls |-> calls,
   returned |-> <<>>, lastCall |-> NoCall, activeId |-> activeId,
   dropTarget |-> dropTarget, hoverRef |-> hoverRef, timers |-> timers,
   hovered |-> hovered, over |-> over, drop |-> drop,
   localFolders |-> localFolders, configFolders |-> configFolders,
   openFolder |-> openFolder]

\* The task ends: the fields take their values in world w
Commit(w) ==
  \E v \in {w} :
    /\ dom' = v.dom /\ cols' = v.cols /\ state' = v.state /\ events' = v.events
    /\ ghost' = v.ghost /\ offset' = v.offset /\ ghostPos' = v.ghostPos /\ body' = v.body
    /\ removed' = v.removed /\ items' = v.items /\ tf' = v.tf /\ slot' = v.slot
    /\ tracker' = v.tracker /\ pending' = v.pending /\ emitted' = v.emitted
    /\ pointerDown' = v.pointerDown /\ gestures' = v.gestures
    /\ registered' = v.registered /\ activeGridId' = v.activeGridId
    /\ isHandingOff' = v.isHandingOff /\ calls' = v.calls /\ returned' = v.returned
    /\ lastCall' = v.lastCall /\ activeId' = v.activeId /\ dropTarget' = v.dropTarget
    /\ hoverRef' = v.hoverRef /\ timers' = v.timers /\ hovered' = v.hovered
    /\ over' = v.over /\ drop' = v.drop
    /\ localFolders' = v.localFolders /\ configFolders' = v.configFolders
    /\ openFolder' = v.openFolder

Emit(w, g, name, a, b) ==
  IF w.events[g]
  THEN [w EXCEPT !.emitted = Append(@, [grid |-> g, name |-> name, a |-> a, b |-> b])]
  ELSE w

\* ------------------------------------------------------------------------
\* GhostElement
\* ------------------------------------------------------------------------
NoTf == NIL                          \* style.transform = ""
ZeroPt == Pt(0, 0)

\* Ghost elements some object still refers to
Referenced(w) ==
  {w.ghost[g] : g \in Grids} \cup {w.calls[i].ghost : i \in 1..Len(w.calls)}
FreeGhosts(w) == GhostIds \ (w.body \cup Referenced(w))
\* cloneNode(): a new element (the identity of a collected one may be reused)
NewGhost(w) ==
  GhostNames[CHOOSE i \in 1..MaxGhosts :
               /\ GhostNames[i] \in FreeGhosts(w)
               /\ \A j \in 1..(i - 1) : GhostNames[j] \notin FreeGhosts(w)]

\* Element.remove()
RemoveElement(w, el) ==
  [w EXCEPT !.body = @ \ {el}, !.removed[el] = Min(@ + 1, 2), !.ghostPos[el] = ZeroPt]

\* GhostElement.create(source, initialPointer); sourceCenter is the center of
\* source.getBoundingClientRect()
GhostElement_create(w, g, sourceCenter, initialPointer) ==
  LET el == NewGhost(w) IN
  [w EXCEPT !.offset[g] = Pt(sourceCenter.x - initialPointer.x,
                             sourceCenter.y - initialPointer.y),
            !.ghost[g] = el,
            !.ghostPos[el] = sourceCenter,
            !.removed[el] = 0,
            !.body = @ \cup {el}]

GhostElement_updatePosition(w, g, pointer) ==
  IF w.ghost[g] = NULL THEN w
  ELSE [w EXCEPT !.ghostPos[w.ghost[g]] =
                   Pt(pointer.x + w.offset[g].x, pointer.y + w.offset[g].y)]

GhostElement_destroy(w, g) ==
  IF w.ghost[g] # NULL
  THEN [RemoveElement(w, w.ghost[g]) EXCEPT !.ghost[g] = NULL]
  ELSE w

GhostElement_adopt(w, g, existingElement, currentPointer) ==
  LET w1 == IF w.ghost[g] # NULL /\ w.ghost[g] # existingElement
            THEN RemoveElement(w, w.ghost[g]) ELSE w
  IN [w1 EXCEPT !.ghost[g] = existingElement,
                !.offset[g] = Pt(w.ghostPos[existingElement].x - currentPointer.x,
                                 w.ghostPos[existingElement].y - currentPointer.y)]

\* GhostElement.detach(): the element it returns ...
GhostElement_getElement(w, g) == w.ghost[g]
\* a detach that returns the element and keeps the reference to it
detachKeepingReference(w, g) == w
\* ... and the world it leaves
GhostElement_detach(w, g) == [w EXCEPT !.ghost[g] = NULL]

\* GhostElement.animateTo, up to setTimeout: the transform is set to the target
GhostElement_animateTo(w, g, targetCenter) ==
  IF w.ghost[g] = NULL THEN w
  ELSE [w EXCEPT !.ghostPos[w.ghost[g]] = targetCenter]

\* GhostElement.animateTo, the setTimeout callback
GhostElement_animateDone(w, g) ==
  IF w.ghost[g] # NULL THEN GhostElement_destroy(w, g) ELSE w

\* ------------------------------------------------------------------------
\* GridTransforms
\* ------------------------------------------------------------------------
\* array[i] of a JavaScript array (0-based), NIL where it is undefined
At(arr, i) == IF i >= 0 /\ i < Len(arr) THEN arr[i + 1] ELSE NIL

RectAt(left, top) ==
  [left |-> left, top |-> top, width |-> ItemW, height |-> ItemH,
   center |-> Pt(left + HalfW, top + HalfH)]

\* GridTransforms.cachePositions(container): the GridItems it builds. The rect
\* of an element is its slot in the container's layout.
CachedItems(w, g) ==
  [i \in 1..Len(w.dom[g]) |->
     [id |-> w.dom[g][i], index |-> i - 1,
      rect |-> RectAt(ItemLeft(g, w.cols[g], i - 1), ItemTop(g, w.cols[g], i - 1))]]

GridTransforms_cachePositions(w, g) == [w EXCEPT !.items[g] = CachedItems(w, g)]

\* reset() with its loop starting at the second item
resetFromSecondItem(w, g) ==
  [w EXCEPT !.tf[g] = [id \in ItemIds |->
     IF \E i \in 2..Len(w.items[g]) : w.items[g][i].id = id THEN NoTf ELSE @[id]]]

\* GridTransforms.reset()
GridTransforms_reset(w, g) ==
  [w EXCEPT !.tf[g] = [id \in ItemIds |->
     IF \E i \in 1..Len(w.items[g]) : w.items[g][i].id = id THEN NoTf ELSE @[id]]]

\* The transform applyShifts writes to one item (NIL: it writes none)
ShiftOf(its, item, activeIndex, targetIndex) ==
  LET movingForward == targetIndex > activeIndex
      startIdx == IF movingForward THEN activeIndex + 1 ELSE targetIndex
      endIdx == IF movingForward THEN targetIndex ELSE activeIndex - 1
      shiftTarget == IF movingForward THEN At(its, item.index - 1)
                     ELSE At(its, item.index + 1)
  IN IF item.index = activeIndex THEN NIL
     ELSE IF item.index >= startIdx /\ item.index <= endIdx
          THEN IF shiftTarget # NIL
               THEN Pt(shiftTarget.rect.left - item.rect.left,
                       shiftTarget.rect.top - item.rect.top)
               ELSE NIL
          ELSE ZeroPt

\* GridTransforms.applyShifts(activeIndex, targetIndex)
GridTransforms_applyShifts(w, g, activeIndex, targetIndex) ==
  IF activeIndex = targetIndex THEN GridTransforms_reset(w, g)
  ELSE IF At(w.items[g], activeIndex) = NIL THEN w
  ELSE [w EXCEPT !.tf[g] = [id \in ItemIds |->
          IF \E i \in 1..Len(w.items[g]) :
               /\ w.items[g][i].id = id
               /\ ShiftOf(w.items[g], w.items[g][i], activeIndex, targetIndex) # NIL
          THEN LET i == CHOOSE i \in 1..Len(w.items[g]) : w.items[g][i].id = id
               IN ShiftOf(w.items[g], w.items[g][i], activeIndex, targetIndex)
          ELSE @[id]]]

\* ------------------------------------------------------------------------
\* SlotDetection
\* ------------------------------------------------------------------------
NoIndex == -1     \* a null index (update's "no crossing"), and the fields' reset value
NoSlot == [layout |-> NIL, items |-> <<>>, activeIndex |-> NoIndex, targetIndex |-> NoIndex,
           previousCenter |-> NIL]

\* calculateLayout with the vertical gap left at its initial 0
calculateLayoutWithoutGapY(its) ==
  LET first == its[1].rect
      columns == CHOOSE c \in 1..Len(its) :
                   /\ \A i \in 1..(c - 1) : 2 * Abs(its[i + 1].rect.top - first.top) <= first.height
                   /\ (c = Len(its) \/ 2 * Abs(its[c + 1].rect.top - first.top) > first.height)
      gapX == IF columns >= 2 THEN its[2].rect.left - (first.left + first.width) ELSE 0
  IN [columns |-> columns, totalItems |-> Len(its), itemWidth |-> first.width,
      itemHeight |-> first.height, iconSize |-> IconSize, gapX |-> gapX, gapY |-> 0,
      offsetX |-> first.left, offsetY |-> first.top,
      cellWidth |-> first.width + gapX, cellHeight |-> first.height]

\* SlotDetection.calculateLayout(items)
calculateLayout(its) ==
  LET first == its[1].rect
      itemWidth == first.width
      itemHeight == first.height
      \* the first i >= 1 whose top leaves the first row, or items.length
      columns == CHOOSE c \in 1..Len(its) :
                   /\ \A i \in 1..(c - 1) : 2 * Abs(its[i + 1].rect.top - first.top) <= itemHeight
                   /\ (c = Len(its) \/ 2 * Abs(its[c + 1].rect.top - first.top) > itemHeight)
      gapX == IF columns >= 2 THEN its[2].rect.left - (first.left + itemWidth) ELSE 0
      gapY == IF Len(its) > columns THEN its[columns + 1].rect.top - (first.top + itemHeight)
              ELSE 0
  IN [columns |-> columns, totalItems |-> Len(its), itemWidth |-> itemWidth,
      itemHeight |-> itemHeight, iconSize |-> IconSize, gapX |-> gapX, gapY |-> gapY,
      offsetX |-> first.left, offsetY |-> first.top,
      cellWidth |-> itemWidth + gapX, cellHeight |-> itemHeight + gapY]

\* SlotDetection.initialize(items, activeIndex)
SlotDetection_initialize(w, g, its, activeIndex) ==
  IF Len(its) = 0 THEN w
  ELSE [w EXCEPT !.slot[g] =
          [layout |-> calculateLayout(its), items |-> its, activeIndex |-> activeIndex,
           targetIndex |-> activeIndex, previousCenter |-> its[activeIndex + 1].rect.center]]

\* SlotDetection.reset()
SlotDetection_reset(w, g) == [w EXCEPT !.slot[g] = NoSlot]

\* The loop's body with the tolerance test written `<=`
CrossedAtTolerance(sl, item, currentCenter) ==
  LET prev == sl.previousCenter
      deltaX == currentCenter.x - prev.x
      deltaY == currentCenter.y - prev.y
      isHorizontalPrimary == Abs(deltaX) >= Abs(deltaY)
      targetCenter == item.rect.center
      crossedRight == deltaX > 0 /\ prev.x < targetCenter.x /\ currentCenter.x >= targetCenter.x
      crossedLeft == deltaX < 0 /\ prev.x > targetCenter.x /\ currentCenter.x <= targetCenter.x
      crossedDown == deltaY > 0 /\ prev.y < targetCenter.y /\ currentCenter.y >= targetCenter.y
      crossedUp == deltaY < 0 /\ prev.y > targetCenter.y /\ currentCenter.y <= targetCenter.y
  IN /\ item.index # sl.activeIndex
     /\ IF isHorizontalPrimary
        THEN (crossedRight \/ crossedLeft)
             /\ Abs(currentCenter.y - targetCenter.y) <= sl.layout.iconSize
        ELSE (crossedDown \/ crossedUp)
             /\ Abs(currentCenter.x - targetCenter.x) <= sl.layout.iconSize

\* The loop's body without the skip of the active item
CrossedActiveToo(sl, item, currentCenter) ==
  LET prev == sl.previousCenter
      deltaX == currentCenter.x - prev.x
      deltaY == currentCenter.y - prev.y
      targetCenter == item.rect.center
      crossedX == \/ deltaX > 0 /\ prev.x < targetCenter.x /\ currentCenter.x >= targetCenter.x
                  \/ deltaX < 0 /\ prev.x > targetCenter.x /\ currentCenter.x <= targetCenter.x
      crossedY == \/ deltaY > 0 /\ prev.y < targetCenter.y /\ currentCenter.y >= targetCenter.y
                  \/ deltaY < 0 /\ prev.y > targetCenter.y /\ currentCenter.y <= targetCenter.y
  IN IF Abs(deltaX) >= Abs(deltaY)
     THEN crossedX /\ Abs(currentCenter.y - targetCenter.y) < sl.layout.iconSize
     ELSE crossedY /\ Abs(currentCenter.x - targetCenter.x) < sl.layout.iconSize

\* The body of detectCrossing's loop: the dragged center crossed this item's center
Crossed(sl, item, currentCenter) ==
  LET prev == sl.previousCenter
      deltaX == currentCenter.x - prev.x
      deltaY == currentCenter.y - prev.y
      isHorizontalPrimary == Abs(deltaX) >= Abs(deltaY)
      targetCenter == item.rect.center
      crossedRight == deltaX > 0 /\ prev.x < targetCenter.x /\ currentCenter.x >= targetCenter.x
      crossedLeft == deltaX < 0 /\ prev.x > targetCenter.x /\ currentCenter.x <= targetCenter.x
      crossedDown == deltaY > 0 /\ prev.y < targetCenter.y /\ currentCenter.y >= targetCenter.y
      crossedUp == deltaY < 0 /\ prev.y > targetCenter.y /\ currentCenter.y <= targetCenter.y
  IN /\ item.index # sl.activeIndex
     /\ IF isHorizontalPrimary
        THEN (crossedRight \/ crossedLeft)
             /\ Abs(currentCenter.y - targetCenter.y) < sl.layout.iconSize
        ELSE (crossedDown \/ crossedUp)
             /\ Abs(currentCenter.x - targetCenter.x) < sl.layout.iconSize

\* detectCrossing answering the crossed item's position counted from one
detectCrossingFromOne(sl, currentCenter) ==
  IF sl.previousCenter = NIL THEN NoIndex
  ELSE IF \E i \in 1..Len(sl.items) : Crossed(sl, sl.items[i], currentCenter)
       THEN sl.items[CHOOSE i \in 1..Len(sl.items) :
                       /\ Crossed(sl, sl.items[i], currentCenter)
                       /\ \A j \in 1..(i - 1) : ~Crossed(sl, sl.items[j], currentCenter)].index
            + 1
       ELSE NoIndex

\* SlotDetection.detectCrossing(currentCenter): the first item of the array
\* whose center was crossed, NoIndex (null) when there is none
detectCrossing(sl, currentCenter) ==
  IF sl.previousCenter = NIL THEN NoIndex
  ELSE IF \E i \in 1..Len(sl.items) : Crossed(sl, sl.items[i], currentCenter)
       THEN sl.items[CHOOSE i \in 1..Len(sl.items) :
                       /\ Crossed(sl, sl.items[i], currentCenter)
                       /\ \A j \in 1..(i - 1) : ~Crossed(sl, sl.items[j], currentCenter)].index
       ELSE NoIndex

\* SlotDetection.update(currentCenter): the value it returns ...
updateResult(sl, currentCenter) ==
  IF sl.layout = NIL \/ sl.previousCenter = NIL THEN NoIndex
  ELSE LET newTargetIndex == detectCrossing(sl, currentCenter)
       IN IF newTargetIndex # NoIndex /\ newTargetIndex # sl.targetIndex
          THEN newTargetIndex ELSE NoIndex

\* ... and the fields it leaves
SlotDetection_update(w, g, currentCenter) ==
  LET sl == w.slot[g] IN
  IF sl.layout = NIL \/ sl.previousCenter = NIL THEN w
  ELSE [w EXCEPT !.slot[g].previousCenter = currentCenter,
                 !.slot[g].targetIndex =
                   IF updateResult(sl, currentCenter) # NoIndex
                   THEN updateResult(sl, currentCenter) ELSE @]

\* SlotDetection.getSlotCenter(slotIndex)
getSlotCenter(sl, slotIndex) ==
  IF sl.layout = NIL
  THEN IF At(sl.items, slotIndex) # NIL THEN At(sl.items, slotIndex).rect.center ELSE ZeroPt
  ELSE LET col == slotIndex % sl.layout.columns
           row == slotIndex \div sl.layout.columns
       IN Pt(sl.layout.offsetX + col * sl.layout.cellWidth + sl.layout.itemWidth \div 2,
             sl.layout.offsetY + row * sl.layout.cellHeight + sl.layout.itemHeight \div 2)

\* ------------------------------------------------------------------------
\* PointerTracker
\* ------------------------------------------------------------------------
NoTracker == [listening |-> FALSE, armed |-> FALSE, isDragging |-> FALSE,
              startPoint |-> NIL, activeElement |-> NULL]

\* PointerTracker.cleanup(): the document listeners are removed, the fields reset
PointerTracker_cleanup(w, g) ==
  [w EXCEPT !.tracker[g].armed = FALSE, !.tracker[g].isDragging = FALSE,
            !.tracker[g].startPoint = NIL, !.tracker[g].activeElement = NULL]

PointerTracker_enable(w, g) == [w EXCEPT !.tracker[g].listening = TRUE]

PointerTracker_disable(w, g) ==
  PointerTracker_cleanup([w EXCEPT !.tracker[g].listening = FALSE], g)

\* PointerTracker.adoptDrag(): the tracker is put in its dragging state and the
\* document listeners are attached, with no pointerdown
PointerTracker_adoptDrag(w, g) ==
  [w EXCEPT !.tracker[g].armed = TRUE, !.tracker[g].isDragging = TRUE]

\* PointerTracker.handlePointerDown, past its checks of the event's target
PointerTracker_handlePointerDown(w, g, element, point) ==
  [w EXCEPT !.tracker[g].startPoint = point, !.tracker[g].activeElement = element,
            !.tracker[g].armed = TRUE]

\* The tracker follows a drag it adopted: there was no pointerdown to set
\* startPoint and activeElement, and its moves are reported all the same
AdoptedDrag(t) == t.isDragging /\ t.startPoint = NIL

\* a tracker that confirms the drag one pixel short of the activation distance
ActivatesOnePixelShort(startPoint, currentPoint) ==
  (currentPoint.x - startPoint.x) * (currentPoint.x - startPoint.x)
    + (currentPoint.y - startPoint.y) * (currentPoint.y - startPoint.y)
    >= (ACTIVATION_DISTANCE - 1) * (ACTIVATION_DISTANCE - 1)

\* Math.hypot(dx, dy) >= ACTIVATION_DISTANCE
Activates(startPoint, currentPoint) ==
  (currentPoint.x - startPoint.x) * (currentPoint.x - startPoint.x)
    + (currentPoint.y - startPoint.y) * (currentPoint.y - startPoint.y)
    >= ACTIVATION_DISTANCE * ACTIVATION_DISTANCE

\* ------------------------------------------------------------------------
\* The host's event handlers (useDragGrid)
\* ------------------------------------------------------------------------
\* arrayMove(array, fromIndex, toIndex): two splices
arrayMove(array, fromIndex, toIndex) ==
  IF fromIndex < 0 \/ fromIndex >= Len(array) THEN array
  ELSE LET removed1 == array[fromIndex + 1]
           rest == [i \in 1..(Len(array) - 1) |->
                      IF i <= fromIndex THEN array[i] ELSE array[i + 1]]
           at == Min(toIndex, Len(rest))
       IN [i \in 1..Len(array) |->
             IF i <= at THEN rest[i] ELSE IF i = at + 1 THEN removed1 ELSE rest[i - 1]]

\* useDragGrid's onDragEnd handler with no external handler: it reads
\* engine.getState() (kept in lastCall.state: whether it was non-null), then
\* reorder(), complete()
Host_onDragEnd(w, g, fromIndex, toIndex) ==
  IF ~w.events[g] THEN w
  ELSE LET w1 == [w EXCEPT !.lastCall = [name |-> "onDragEnd", a |-> fromIndex,
                                         b |-> toIndex, shifted |-> FALSE,
                                         state |-> w.state[g] # NIL]]
       IN IF fromIndex = toIndex THEN w1
          ELSE [w1 EXCEPT !.dom[g] = arrayMove(@, fromIndex, toIndex)]

\* ------------------------------------------------------------------------
\* DragEngine
\* ------------------------------------------------------------------------
\* DragEngine.handleDragStart(element, pointer)
DragEngine_handleDragStart(w, g, element, pointer) ==
  LET w1 == GridTransforms_cachePositions(w, g)
      its == w1.items[g]
      activeIndex == IndexOf(w.dom[g], element)
  IN IF activeIndex = -1 THEN w1
     ELSE LET activeItem == its[activeIndex + 1]
              w2 == [w1 EXCEPT !.state[g] =
                       [activeItem |-> activeItem, startPointer |-> pointer,
                        currentPointer |-> pointer, previousPointer |-> pointer,
                        activeCenter |-> activeItem.rect.center,
                        targetIndex |-> activeIndex]]
              w3 == GhostElement_create(w2, g, activeItem.rect.center, pointer)
              w4 == SlotDetection_initialize(w3, g, its, activeIndex)
          IN Emit(w4, g, "onDragStart", activeItem.id, activeIndex)

\* DragEngine.handleDragEnd, from `if (!this.state) return` after the await on
DragEngine_resumeDragEnd(w, g, fromIndex, toIndex) ==
  IF w.state[g] = NIL THEN w
  ELSE LET w1 == SlotDetection_reset(w, g)
           w2 == Emit(w1, g, "onDragEnd", fromIndex, toIndex)
           w3 == Host_onDragEnd(w2, g, fromIndex, toIndex)
       IN [w3 EXCEPT !.state[g] = NIL]

\* DragEngine.handleDragEnd(pointer), up to the await; `answer` is what the
\* host's getDropAnimationTarget returned ("undefined" or "null")
DragEngine_handleDragEnd(w, g, answer) ==
  IF w.state[g] = NIL THEN w
  ELSE LET fromIndex == w.state[g].activeItem.index
           toIndex == w.state[g].targetIndex
       IN IF answer = "undefined"
          THEN IF w.ghost[g] = NULL
               \* animateTo resolves at once: the rest runs before any other task
               THEN DragEngine_resumeDragEnd(w, g, fromIndex, toIndex)
               ELSE [GhostElement_animateTo(w, g, getSlotCenter(w.slot[g], toIndex))
                       EXCEPT !.pending[g] =
                         Append(@, [fromIndex |-> fromIndex, toIndex |-> toIndex,
                                    abandoned |-> FALSE])]
          ELSE DragEngine_resumeDragEnd(GhostElement_destroy(w, g), g, fromIndex, toIndex)

\* handleDragCancel without its gridTransforms.reset()
handleDragCancelKeepingTransforms(w, g) ==
  IF w.state[g] = NIL THEN w
  ELSE LET w1 == GhostElement_destroy(w, g)
           w3 == SlotDetection_reset(w1, g)
           w4 == Emit(w3, g, "onDragCancel", NULL, NULL)
       IN [w4 EXCEPT !.state[g] = NIL]

\* handleDragCancel without its this.events.onDragCancel?.()
handleDragCancelWithoutEvent(w, g) ==
  IF w.state[g] = NIL THEN w
  ELSE LET w1 == GhostElement_destroy(w, g)
           w2 == GridTransforms_reset(w1, g)
           w3 == SlotDetection_reset(w2, g)
       IN [w3 EXCEPT !.state[g] = NIL]

\* DragEngine.handleDragCancel()
DragEngine_handleDragCancel(w, g) ==
  IF w.state[g] = NIL THEN w
  ELSE LET w1 == GhostElement_destroy(w, g)
           w2 == GridTransforms_reset(w1, g)
           w3 == SlotDetection_reset(w2, g)
           w4 == Emit(w3, g, "onDragCancel", NULL, NULL)
       IN [w4 EXCEPT !.state[g] = NIL]

\* The handleDragEnd calls of engine g that are suspended at their await, each
\* with the note that cancel() or destroy() has run on the engine since (the
\* note records the past; the program has no such field)
Abandoned(w, g) ==
  [i \in 1..Len(w.pending[g]) |-> [w.pending[g][i] EXCEPT !.abandoned = TRUE]]

\* DragEngine.cancel(preserveGhost)
DragEngine_cancel(w, g, preserveGhost) ==
  IF w.state[g] = NIL THEN w
  ELSE LET w1 == IF ~preserveGhost THEN GhostElement_destroy(w, g) ELSE w
           w2 == GridTransforms_reset(w1, g)
           w3 == SlotDetection_reset(w2, g)
           w4 == PointerTracker_enable(PointerTracker_disable(w3, g), g)
       IN [w4 EXCEPT !.state[g] = NIL, !.pending[g] = Abandoned(w, g)]

\* DragEngine.destroy()
DragEngine_destroy(w, g) ==
  LET w1 == PointerTracker_disable(w, g)
      w2 == GhostElement_destroy(w1, g)
      w3 == GridTransforms_reset(w2, g)
      w4 == SlotDetection_reset(w3, g)
  IN [w4 EXCEPT !.state[g] = NIL, !.events[g] = FALSE,
                !.pending[g] = Abandoned(w, g)]

\* DragEngine.startDragAt(element, pointer, existingGhost)
DragEngine_startDragAt(w, g, element, pointer, existingGhost) ==
  LET w1 == GridTransforms_cachePositions(w, g)
      its == w1.items[g]
      activeIndex == IndexOf(w.dom[g], element)
  IN IF activeIndex = -1
     THEN IF existingGhost # NULL THEN RemoveElement(w1, existingGhost) ELSE w1
     ELSE LET activeItem == its[activeIndex + 1]
              ghostCenter == w.ghostPos[existingGhost]
              startPointer ==
                IF existingGhost # NULL
                THEN Pt(pointer.x - (ghostCenter.x - activeItem.rect.center.x),
                        pointer.y - (ghostCenter.y - activeItem.rect.center.y))
                ELSE pointer
              activeCenter == IF existingGhost # NULL THEN ghostCenter
                              ELSE activeItem.rect.center
              w2 == [w1 EXCEPT !.state[g] =
                       [activeItem |-> activeItem, startPointer |-> startPointer,
                        currentPointer |-> pointer, previousPointer |-> pointer,
                        activeCenter |-> activeCenter, targetIndex |-> activeIndex]]
              w3 == IF existingGhost # NULL
                    THEN GhostElement_adopt(w2, g, existingGhost, pointer)
                    ELSE GhostElement_create(w2, g, activeItem.rect.center, pointer)
              w4 == SlotDetection_initialize(w3, g, its, activeIndex)
              w5 == PointerTracker_adoptDrag(w4, g)
          IN Emit(w5, g, "onDragStart", activeItem.id, activeIndex)

\* ------------------------------------------------------------------------
\* DragCoordinator
\* ------------------------------------------------------------------------
IsRegistered(w, g) == \E i \in 1..Len(w.registered) : w.registered[i] = g

\* DragCoordinator.register(registration): Map.set keeps the place of a known key
DragCoordinator_register(w, g) ==
  IF IsRegistered(w, g) THEN w ELSE [w EXCEPT !.registered = Append(@, g)]

\* DragCoordinator.unregister(gridId)
DragCoordinator_unregister(w, g) ==
  [w EXCEPT !.registered = SelectSeq(@, LAMBDA r : r # g),
            !.activeGridId = IF @ = g THEN NULL ELSE @]

\* DragCoordinator.setActiveGrid(gridId)
DragCoordinator_setActiveGrid(w, g) == [w EXCEPT !.activeGridId = g]

\* isPointOutsideRect(point, rect)
isPointOutsideRect(point, rect) ==
  point.x < rect.left \/ point.x > rect.right \/ point.y < rect.top \/ point.y > rect.bottom

\* checkBoundaries without its first search: the first other grid, wherever the
\* pointer is
checkBoundariesFirstOther(w, pointer) ==
  IF w.activeGridId = NULL \/ w.isHandingOff THEN NULL
  ELSE IF ~IsRegistered(w, w.activeGridId) THEN NULL
  ELSE IF ~isPointOutsideRect(pointer, ContainerRect(w.activeGridId, w.cols[w.activeGridId]))
       THEN NULL
  ELSE LET others == SelectSeq(w.registered, LAMBDA r : r # w.activeGridId)
       IN IF Len(others) > 0 THEN others[1] ELSE NULL

\* DragCoordinator.checkBoundaries(pointer)
checkBoundaries(w, pointer) ==
  IF w.activeGridId = NULL \/ w.isHandingOff THEN NULL
  ELSE IF ~IsRegistered(w, w.activeGridId) THEN NULL
  ELSE IF ~isPointOutsideRect(pointer, ContainerRect(w.activeGridId, w.cols[w.activeGridId]))
       THEN NULL
  ELSE LET others == SelectSeq(w.registered, LAMBDA r : r # w.activeGridId)
           inside(r) ==
             LET rect == ContainerRect(r, w.cols[r]) IN
             /\ rect.right - rect.left # 0 /\ rect.bottom - rect.top # 0
             /\ pointer.x >= rect.left /\ pointer.x <= rect.right
             /\ pointer.y >= rect.top /\ pointer.y <= rect.bottom
           containing == SelectSeq(others, inside)
       IN IF Len(containing) > 0 THEN containing[1]
          ELSE IF Len(others) > 0 THEN others[1]
          ELSE NULL

\* A handoff() call resolves: what the caller observes. `stage` is the return
\* statement reached: "rejected" (the entry checks), "aborted" (no drag state,
\* no ghost), "notFound", "caught", "done"
Return(w, c, stage, result) ==
  [w EXCEPT !.returned = Append(@, [to |-> c.to, from |-> c.from, item |-> c.item,
                                    ghost |-> c.ghost, stage |-> stage,
                                    result |-> result])]

\* handoff without its `if (this.isHandingOff) return false`
handoffWithoutReentrancyGuard(w, toGridId, itemId, pointer) ==
  LET c0 == [to |-> toGridId, from |-> w.activeGridId, item |-> itemId,
             pointer |-> pointer, ghost |-> NULL, pc |-> "onHandoff"]
  IN
  IF w.activeGridId = NULL THEN Return(w, c0, "rejected", FALSE)
  ELSE IF ~IsRegistered(w, w.activeGridId) \/ ~IsRegistered(w, toGridId)
       THEN Return(w, c0, "rejected", FALSE)
  ELSE LET fromGrid == w.activeGridId
           w1 == [w EXCEPT !.isHandingOff = TRUE]
       IN IF w1.state[fromGrid] = NIL
          THEN Return([w1 EXCEPT !.isHandingOff = FALSE], c0, "aborted", FALSE)
          ELSE LET el == GhostElement_getElement(w1, fromGrid)
                   w2 == GhostElement_detach(w1, fromGrid)
               IN IF el = NULL
                  THEN Return([w2 EXCEPT !.isHandingOff = FALSE], c0, "aborted", FALSE)
                  ELSE LET w3 == DragEngine_cancel(w2, fromGrid, FALSE)
                       IN [w3 EXCEPT !.calls = Append(@, [c0 EXCEPT !.ghost = el])]

\* handoff that returns from "no drag state" without resetting isHandingOff
handoffAbortKeepingFlag(w, toGridId, itemId, pointer) ==
  LET c0 == [to |-> toGridId, from |-> w.activeGridId, item |-> itemId,
             pointer |-> pointer, ghost |-> NULL, pc |-> "onHandoff"]
  IN
  IF w.isHandingOff THEN Return(w, c0, "rejected", FALSE)
  ELSE IF w.activeGridId = NULL THEN Return(w, c0, "rejected", FALSE)
  ELSE IF ~IsRegistered(w, w.activeGridId) \/ ~IsRegistered(w, toGridId)
       THEN Return(w, c0, "rejected", FALSE)
  ELSE LET fromGrid == w.activeGridId
           w1 == [w EXCEPT !.isHandingOff = TRUE]
       IN IF w1.state[fromGrid] = NIL
          THEN Return(w1, c0, "aborted", FALSE)
          ELSE LET el == GhostElement_getElement(w1, fromGrid)
                   w2 == GhostElement_detach(w1, fromGrid)
               IN IF el = NULL
                  THEN Return([w2 EXCEPT !.isHandingOff = FALSE], c0, "aborted", FALSE)
                  ELSE LET w3 == DragEngine_cancel(w2, fromGrid, FALSE)
                       IN [w3 EXCEPT !.calls = Append(@, [c0 EXCEPT !.ghost = el])]

\* DragCoordinator.handoff(toGridId, itemId, pointer), up to
\* `await this.onHandoff?.(request)`
DragCoordinator_handoff(w, toGridId, itemId, pointer) ==
  LET c0 == [to |-> toGridId, from |-> w.activeGridId, item |-> itemId,
             pointer |-> pointer, ghost |-> NULL, pc |-> "onHandoff"]
  IN
  IF w.isHandingOff THEN Return(w, c0, "rejected", FALSE)
  ELSE IF w.activeGridId = NULL THEN Return(w, c0, "rejected", FALSE)
  ELSE IF ~IsRegistered(w, w.activeGridId) \/ ~IsRegistered(w, toGridId)
       THEN Return(w, c0, "rejected", FALSE)
  ELSE LET fromGrid == w.activeGridId
           w1 == [w EXCEPT !.isHandingOff = TRUE]
       IN IF w1.state[fromGrid] = NIL
          THEN Return([w1 EXCEPT !.isHandingOff = FALSE], c0, "aborted", FALSE)
          ELSE LET el == GhostElement_getElement(w1, fromGrid)
                   w2 == GhostElement_detach(w1, fromGrid)
               IN IF el = NULL
                  THEN Return([w2 EXCEPT !.isHandingOff = FALSE], c0, "aborted", FALSE)
                  ELSE LET w3 == DragEngine_cancel(w2, fromGrid, FALSE)
                       IN [w3 EXCEPT !.calls = Append(@, [c0 EXCEPT !.ghost = el])]

RemoveCall(w, i) ==
  [w EXCEPT !.calls = [j \in 1..(Len(@) - 1) |-> IF j < i THEN @[j] ELSE @[j + 1]]]

\* DragCoordinator.handoff: its catch block
DragCoordinator_handoffCatch(w, i) ==
  LET c == w.calls[i]
      w1 == RemoveElement(w, c.ghost)
      w2 == [w1 EXCEPT !.isHandingOff = FALSE]
  IN Return(RemoveCall(w2, i), c, "caught", FALSE)

\* The host's onHandoff callback, where it moves the item to the target grid
\* (useGrid: the app leaves the open folder and is appended to the main order)
Host_onHandoff(w, c) ==
  [w EXCEPT !.dom = [g \in Grids |->
                       IF g = c.to
                       THEN IF c.item \in SeqToSet(@[g]) THEN @[g] ELSE Append(@[g], c.item)
                       ELSE SelectSeq(@[g], LAMBDA id : id # c.item)],
            \* the element rendered in the target grid is a new one
            !.tf = [g \in Grids |->
                      IF c.item \in SeqToSet(w.dom[c.to]) THEN @[g]
                      ELSE [@[g] EXCEPT ![c.item] = NoTf]]]

\* DragCoordinator.handoff, from the second animation frame on
DragCoordinator_handoffResume(w, i) ==
  LET c == w.calls[i]
      w0 == RemoveCall(w, i)
  IN IF c.item \notin SeqToSet(w.dom[c.to])
     THEN LET w1 == RemoveElement(w0, c.ghost)
              w2 == [w1 EXCEPT !.isHandingOff = FALSE, !.activeGridId = NULL]
          IN Return(w2, c, "notFound", FALSE)
     ELSE LET w1 == DragEngine_startDragAt(w0, c.to, c.item, c.pointer, c.ghost)
              w2 == [w1 EXCEPT !.activeGridId = c.to, !.isHandingOff = FALSE]
          IN Return(w2, c, "done", TRUE)

\* ------------------------------------------------------------------------
\* DragEngine.handleDragMove and the host's onDragMove handler
\* ------------------------------------------------------------------------
\* The host's onDragMove handler (README "Multi-Grid Handoff", FolderModal):
\* when `react`, it checks the boundaries and hands the drag off
Host_onDragMove(w, g, react) ==
  IF ~w.events[g] \/ ~react \/ w.state[g] = NIL THEN w
  ELSE LET pointer == w.state[g].currentPointer
           targetGridId == checkBoundaries(w, pointer)
       IN IF targetGridId = NULL THEN w
          ELSE DragCoordinator_handoff(w, targetGridId, w.state[g].activeItem.id, pointer)

\* handleDragMove that emits onDragMove only when the index changed
handleDragMoveOnChangeOnly(w, g, pointer, react) ==
  IF w.state[g] = NIL THEN w
  ELSE LET st == w.state[g]
           w1 == GhostElement_updatePosition(w, g, pointer)
           dx == pointer.x - st.startPointer.x
           dy == pointer.y - st.startPointer.y
           newCenter == Pt(st.activeItem.rect.center.x + dx, st.activeItem.rect.center.y + dy)
           newTargetIndex == updateResult(w.slot[g], newCenter)
           w2 == SlotDetection_update(w1, g, newCenter)
           w3 == IF newTargetIndex # NoIndex
                 THEN Emit(Emit([GridTransforms_applyShifts(w2, g, st.activeItem.index,
                                                            newTargetIndex)
                                   EXCEPT !.state[g].targetIndex = newTargetIndex],
                                g, "onIndexChange", st.activeItem.index, newTargetIndex),
                           g, "onDragMove", st.activeItem.id, st.activeItem.index)
                 ELSE w2
       IN Host_onDragMove([w3 EXCEPT !.state[g].previousPointer = st.currentPointer,
                                     !.state[g].currentPointer = pointer,
                                     !.state[g].activeCenter = newCenter], g, react)

\* DragEngine.handleDragMove(pointer)
DragEngine_handleDragMove(w, g, pointer, react) ==
  IF w.state[g] = NIL THEN w
  ELSE LET st == w.state[g]
           w1 == GhostElement_updatePosition(w, g, pointer)
           dx == pointer.x - st.startPointer.x
           dy == pointer.y - st.startPointer.y
           newCenter == Pt(st.activeItem.rect.center.x + dx, st.activeItem.rect.center.y + dy)
           newTargetIndex == updateResult(w.slot[g], newCenter)
           w2 == SlotDetection_update(w1, g, newCenter)
           w3 == IF newTargetIndex # NoIndex
                 THEN Emit([GridTransforms_applyShifts(w2, g, st.activeItem.index, newTargetIndex)
                              EXCEPT !.state[g].targetIndex = newTargetIndex],
                           g, "onIndexChange", st.activeItem.index, newTargetIndex)
                 ELSE w2
           w4 == [w3 EXCEPT !.state[g].previousPointer = st.currentPointer,
                            !.state[g].currentPointer = pointer,
                            !.state[g].activeCenter = newCenter]
           w5 == Emit(w4, g, "onDragMove", st.activeItem.id, st.activeItem.index)
       IN Host_onDragMove(w5, g, react)

\* PointerTracker.handlePointerMove(e)
PointerTracker_handlePointerMove(w, g, currentPoint, react) ==
  LET t == w.tracker[g] IN
  IF ~t.armed THEN w
  ELSE IF (t.startPoint = NIL \/ t.activeElement = NULL) /\ ~AdoptedDrag(t) THEN w
  ELSE LET w1 == IF ~t.isDragging /\ Activates(t.startPoint, currentPoint)
                 THEN DragEngine_handleDragStart(
                        [w EXCEPT !.tracker[g].isDragging = TRUE], g, t.activeElement,
                        t.startPoint)
                 ELSE w
       IN IF w1.tracker[g].isDragging
          THEN DragEngine_handleDragMove(w1, g, currentPoint, react)
          ELSE w1

\* PointerTracker.handlePointerUp(e)
PointerTracker_handlePointerUp(w, g, answer) ==
  IF ~w.tracker[g].armed THEN w
  ELSE PointerTracker_cleanup(
         IF w.tracker[g].isDragging THEN DragEngine_handleDragEnd(w, g, answer) ELSE w, g)

\* PointerTracker.handlePointerCancel()
PointerTracker_handlePointerCancel(w, g) ==
  IF ~w.tracker[g].armed THEN w
  ELSE PointerTracker_cleanup(
         IF w.tracker[g].isDragging THEN DragEngine_handleDragCancel(w, g) ELSE w, g)

\* ------------------------------------------------------------------------
\* Initial states
\* ------------------------------------------------------------------------
ItemCenter(g, c, i) == Pt(ItemLeft(g, c, i) + HalfW, ItemTop(g, c, i) + HalfH)

EngineInit(mountedGrids) ==
  /\ state = [g \in Grids |-> NIL]
  /\ events = [g \in Grids |-> g \in mountedGrids]
  /\ ghost = [g \in Grids |-> NULL]
  /\ offset = [g \in Grids |-> ZeroPt]
  /\ ghostPos = [el \in GhostIds |-> ZeroPt]
  /\ body = {}
  /\ removed = [el \in GhostIds |-> 0]
  /\ items = [g \in Grids |-> <<>>]
  /\ tf = [g \in Grids |-> [id \in ItemIds |-> NoTf]]
  /\ slot = [g \in Grids |-> NoSlot]
  /\ tracker = [g \in Grids |-> [NoTracker EXCEPT !.listening = g \in mountedGrids]]
  /\ pending = [g \in Grids |-> <<>>]
  /\ emitted = <<>>
  /\ returned = <<>>
  /\ lastCall = NoCall
  /\ activeId = NULL
  /\ dropTarget = NIL
  /\ hoverRef = NIL
  /\ timers = {}
  /\ hovered = NIL
  /\ over = NIL
  /\ drop = NIL
  /\ pointerDown = FALSE
  /\ gestures = 0
  /\ isHandingOff = FALSE
  /\ calls = <<>>

\* The app has no folders
NoFolders == localFolders = <<>> /\ configFolders = <<>> /\ openFolder = NIL

\* The main grid with a folder modal open over it: both engines are enabled and
\* registered, and the modal made itself the active grid (FolderModal's effect)
Init ==
  /\ EngineInit({"main-grid", "folder-modal"})
  /\ NoFolders
  /\ dom = [g \in Grids |-> IF g = "main-grid" THEN SubSeq(MainItems, 1, 1)
                            ELSE IF g = "folder-modal" THEN FolderItems ELSE <<>>]
  /\ cols = [g \in Grids |-> 2]
  /\ registered = <<"main-grid", "folder-modal">>
  /\ activeGridId = "folder-modal"

\* ------------------------------------------------------------------------
\* Actions: one browser task each
\* ------------------------------------------------------------------------
Armed(g) == tracker[g].armed
\* a ghost element can be created (the model has an identity left for it)
CanCreateGhost == FreeGhosts(World) # {}

\* pointerdown on the drag handle of element `e` of container `g`
PointerDown(g, e) ==
  /\ ~pointerDown
  /\ tracker[g].listening
  /\ e \in SeqToSet(dom[g])
  /\ Commit([PointerTracker_handlePointerDown(
               World, g, e, ItemCenter(g, cols[g], IndexOf(dom[g], e)))
               EXCEPT !.pointerDown = TRUE, !.gestures = @ + 1])

\* pointermove on the document: every tracker that listens handles it
PointerMove(p, react) ==
  /\ \E g \in Grids : Armed(g)
  /\ CanCreateGhost \/ \A g \in Grids : Armed(g) => tracker[g].isDragging
  /\ Commit(PointerTracker_handlePointerMove(
              PointerTracker_handlePointerMove(
                PointerTracker_handlePointerMove(World, "main-grid", p, react),
                "folder-modal", p, react),
              "side-grid", p, react))

\* pointerup on the document
PointerUp(answer) ==
  /\ pointerDown
  /\ \A g \in Grids :
       (Armed(g) /\ tracker[g].isDragging /\ state[g] # NIL /\ ghost[g] # NULL
          /\ answer = "undefined") => Len(pending[g]) < MaxPending
  /\ Commit([PointerTracker_handlePointerUp(
               PointerTracker_handlePointerUp(
                 PointerTracker_handlePointerUp(World, "main-grid", answer),
                 "folder-modal", answer),
               "side-grid", answer)
               EXCEPT !.pointerDown = FALSE])

\* Engine g is Dragging: it holds a DragState and no drop of it has begun
Dragging(g) == state[g] # NIL /\ pending[g] = <<>>
\* The engines that are Dragging a drag they adopted, and a drag they started
AdoptedDragging == {g \in Grids : Dragging(g) /\ AdoptedDrag(tracker[g])}
StartedDragging == {g \in Grids : Dragging(g) /\ ~AdoptedDrag(tracker[g])}
\* Engine g is Dragging with a shift applied to one of its items
ShiftedDragging(g) ==
  Dragging(g) /\ \E i \in 1..Len(items[g]) : tf[g][items[g][i].id] \notin {NoTf, ZeroPt}

\* pointercancel on the document
PointerCancel ==
  /\ pointerDown
  /\ Commit([PointerTracker_handlePointerCancel(
               PointerTracker_handlePointerCancel(
                 PointerTracker_handlePointerCancel(World, "main-grid"), "folder-modal"),
               "side-grid")
               EXCEPT !.pointerDown = FALSE,
                      !.lastCall = [name |-> "pointercancel",
                                    a |-> Cardinality(AdoptedDragging),
                                    b |-> Cardinality(StartedDragging),
                                    shifted |-> \E g \in Grids : ShiftedDragging(g)]])

\* the setTimeout of the oldest pending animateTo fires, and handleDragEnd resumes
AnimationTimer(g) ==
  /\ pending[g] # <<>>
  /\ LET p == Head(pending[g])
         w1 == GhostElement_animateDone(World, g)
         w2 == [w1 EXCEPT !.pending[g] = Tail(@)]
     IN Commit(DragEngine_resumeDragEnd(w2, g, p.fromIndex, p.toIndex))

\* the host calls coordinator.handoff(toGridId, itemId, pointer) for the drag of
\* the active grid, with another grid as the target
CallHandoff(toGridId) ==
  /\ Len(calls) < MaxCalls
  /\ toGridId # activeGridId
  /\ LET st == IF activeGridId # NULL THEN state[activeGridId] ELSE NIL
         itemId == IF st # NIL THEN st.activeItem.id ELSE FolderItems[1]
         pointer == IF st # NIL THEN st.currentPointer ELSE ZeroPt
     IN Commit(DragCoordinator_handoff(World, toGridId, itemId, pointer))

\* `await this.onHandoff?.(request)` settles: the host moved the item, left the
\* grids as they were, or threw
HandoffCallback(i, outcome) ==
  /\ i \in 1..Len(calls)
  /\ calls[i].pc = "onHandoff"
  /\ IF outcome = "throws" THEN Commit(DragCoordinator_handoffCatch(World, i))
     ELSE LET w1 == IF outcome = "moved" THEN Host_onHandoff(World, calls[i]) ELSE World
          IN Commit([w1 EXCEPT !.calls[i].pc = "frame1"])

\* waitForRender: the first requestAnimationFrame callback
HandoffFrame(i) ==
  /\ i \in 1..Len(calls)
  /\ calls[i].pc = "frame1"
  /\ Commit([World EXCEPT !.calls[i].pc = "frame2"])

\* waitForRender: the second requestAnimationFrame callback; handoff resumes
HandoffResume(i) ==
  /\ i \in 1..Len(calls)
  /\ calls[i].pc = "frame2"
  /\ Commit(DragCoordinator_handoffResume(World, i))

\* pointerdown in the handoff scenes: the open modal covers the main grid, so the
\* pointer goes down on the modal's items
HandoffPointerDown(e) == gestures < HandoffGestures /\ PointerDown("folder-modal", e)

\* Pointer positions of the handoff scenes: one inside the folder modal's
\* container, one outside of it (inside the main grid's)
HandoffPoints == {ItemCenter("folder-modal", 2, 1), ItemCenter("main-grid", 2, 1)}

Next ==
  \/ \E e \in ItemIds : HandoffPointerDown(e)
  \/ \E p \in HandoffPoints, react \in BOOLEAN : PointerMove(p, react)
  \/ \E answer \in {"undefined", "null"} : PointerUp(answer)
  \/ PointerCancel
  \/ \E g \in Grids : AnimationTimer(g)
  \/ \E g \in Grids : CallHandoff(g)
  \/ \E i \in 1..MaxCalls, outcome \in {"moved", "unchanged", "throws"} :
       HandoffCallback(i, outcome)
  \/ \E i \in 1..MaxCalls : HandoffFrame(i)
  \/ \E i \in 1..MaxCalls : HandoffResume(i)

vars == <<dom, cols, state, events, ghost, offset, ghostPos, body, removed, items, tf, slot,
          tracker, pending, emitted, pointerDown, gestures, registered, activeGridId,
          isHandingOff, calls, returned, lastCall, activeId, dropTarget, hoverRef,
          timers, hovered, over, drop, localFolders, configFolders, openFolder>>

Spec == Init /\ [][Next]_vars

\* ------------------------------------------------------------------------
\* Handoff: outcomes, failure safety, re-entrancy
\* ------------------------------------------------------------------------
Resolved(stages) == {i \in 1..Len(returned) : returned[i].stage \in stages}
EmittedOn(ev, g, name) == \E i \in 1..Len(ev) : ev[i].grid = g /\ ev[i].name = name

HandoffSucceeded(r) ==
  /\ r.result = TRUE
  /\ state[r.to] # NIL /\ state[r.to].activeItem.id = r.item
  /\ ghost[r.to] = r.ghost /\ r.ghost \in body
  /\ state[r.from] = NIL /\ ghost[r.from] = NULL
  /\ activeGridId = r.to /\ ~isHandingOff

HandoffFailed(r) ==
  /\ r.result = FALSE
  /\ r.ghost \notin body
  /\ \A g \in Grids : state[g] = NIL
  /\ activeGridId = NULL /\ ~isHandingOff

\* C1: when a handoff call that detached the source's ghost has resolved, it
\* either succeeded (true; the target engine drags the item and owns the ghost,
\* the source holds neither, activeGridId is the target, isHandingOff is false)
\* or failed (false; the ghost is out of the DOM, no engine holds a DragState,
\* activeGridId is null, isHandingOff is false).
C1_HandoffAllOrNothing ==
  \A i \in Resolved({"notFound", "caught", "done"}) :
    HandoffSucceeded(returned[i]) \/ HandoffFailed(returned[i])

\* C4: when onHandoff throws, handoff returns false, the ghost is removed from
\* the DOM, isHandingOff is cleared and activeGridId is null.
C4_ThrowResetsCoordinator ==
  \A i \in Resolved({"caught"}) :
    /\ returned[i].result = FALSE
    /\ returned[i].ghost \notin body
    /\ ~isHandingOff
    /\ activeGridId = NULL

\* C5: at most one handoff is in flight and isHandingOff is set throughout it;
\* checkBoundaries answers null meanwhile; and a step taken while a handoff is
\* in progress starts no other handoff, and every handoff call of that step
\* returns false from the entry checks, leaving engines and ghosts untouched.
C5_SingleHandoffInFlight ==
  /\ [](/\ Len(calls) <= 1
        /\ calls # <<>> => isHandingOff
        /\ isHandingOff => \A p \in HandoffPoints : checkBoundaries(World, p) = NULL)
  /\ [][isHandingOff =>
          /\ \A i \in 1..Len(calls') : \E j \in 1..Len(calls) : calls'[i].ghost = calls[j].ghost
          /\ \A i \in 1..Len(returned') :
               returned'[i].stage \in {"rejected", "aborted"} =>
                 /\ returned'[i].stage = "rejected" /\ returned'[i].result = FALSE
                 /\ state' = state /\ ghost' = ghost /\ body' = body /\ tracker' = tracker
                 /\ calls' = calls /\ isHandingOff']_vars

\* A handoff call was made while another one was in flight, and was rejected
C5_RejectedWhileInFlight ==
  /\ isHandingOff /\ calls # <<>>
  /\ Resolved({"rejected"}) # {}

\* ------------------------------------------------------------------------
\* Drops: a grid on its own, two gestures in a row
\* ------------------------------------------------------------------------
InitDrop ==
  /\ EngineInit({"main-grid"})
  /\ NoFolders
  /\ dom = [g \in Grids |-> IF g = "main-grid" THEN SubSeq(MainItems, 1, 2) ELSE <<>>]
  /\ cols = [g \in Grids |-> 2]
  /\ registered = <<"main-grid">>
  /\ activeGridId = NULL

DropPointerDown(e) == gestures < DropGestures /\ PointerDown("main-grid", e)

\* Pointer positions of the drop scenes: the centers of the grid's two items
DropPoints == {ItemCenter("main-grid", 2, 0), ItemCenter("main-grid", 2, 1)}

NextDrop ==
  \/ \E e \in ItemIds : DropPointerDown(e)
  \/ \E p \in DropPoints : PointerMove(p, FALSE)
  \/ \E answer \in {"undefined", "null"} : PointerUp(answer)
  \/ PointerCancel
  \/ \E g \in Grids : AnimationTimer(g)

SpecDrop == InitDrop /\ [][NextDrop]_vars

\* The holders of a ghost element: the engines whose GhostElement refers to it
\* and the handoff calls that hold it in their `ghost` local
EngineHolders(el) == {g \in Grids : ghost[g] = el}
CallHolders(el) == {i \in 1..Len(calls) : calls[i].ghost = el}

\* C2: every ghost element in the DOM has exactly one holder, an engine or - only
\* while a handoff is in flight - the coordinator; and no ghost element has
\* remove() called on it twice.
C2_GhostHasOneOwner ==
  \A el \in GhostIds :
    /\ el \in body =>
         /\ Cardinality(EngineHolders(el)) + Cardinality(CallHolders(el)) = 1
         /\ CallHolders(el) # {} => isHandingOff
    /\ removed[el] <= 1

\* A drop has begun on engine g and has not finished: handleDragEnd is suspended
\* at `await animateTo`
DropInProgress(g) == pending[g] # <<>>

InitDrag ==
  /\ EngineInit({"main-grid"})
  /\ NoFolders
  /\ dom = [g \in Grids |-> IF g = "main-grid" THEN MainItems ELSE <<>>]
  /\ cols \in {[g \in Grids |-> c] : c \in {2, 4}}
  /\ registered = <<"main-grid">>
  /\ activeGridId = NULL

DragPointerDown(e) == gestures < DragGestures /\ PointerDown("main-grid", e)

\* Pointer positions of the reorder scenes. x: on, just before and just past the
\* center of each column; y: the first row's center, the second row's center, and
\* a line between them that is IconSize away from the first row's center
DragXs == {ItemCenter("main-grid", 4, i).x : i \in 0..3}
            \cup {ItemCenter("main-grid", 4, 1).x + d : d \in {-Near, Near}}
DragYs == {ItemCenter("main-grid", 2, 0).y, ItemCenter("main-grid", 2, 2).y,
           ItemCenter("main-grid", 2, 0).y + IconSize}
DragPoints == {Pt(px, py) : px \in DragXs, py \in DragYs}

NextDrag ==
  \/ \E e \in ItemIds : DragPointerDown(e)
  \/ \E p \in DragPoints : PointerMove(p, FALSE)
  \/ \E answer \in {"undefined", "null"} : PointerUp(answer)
  \/ PointerCancel
  \/ \E g \in Grids : AnimationTimer(g)

SpecDrag == InitDrag /\ [][NextDrag]_vars

MainGrid == "main-grid"
\* The step is the pointermove that activates a drag on engine g: it runs
\* SlotDetection.initialize and then update
DragStarts(g) == ~tracker[g].isDragging /\ tracker'[g].isDragging
\* The dragged center and the target index before a step of a drag, where the
\* step that starts the drag counts from the grabbed item's own center and index
CenterBefore(g) ==
  IF DragStarts(g) THEN slot'[g].items[slot'[g].activeIndex + 1].rect.center
  ELSE slot[g].previousCenter
TargetBefore(g) == IF DragStarts(g) THEN slot'[g].activeIndex ELSE slot[g].targetIndex
\* The step is a move of one drag on engine g
DragMoves(g) ==
  /\ tracker'[g].isDragging
  /\ slot'[g].layout # NIL
  /\ state'[g] # NIL
  /\ DragStarts(g) \/ slot[g].layout # NIL

\* The rightmost item whose center the dragged center has reached, from index i on
ReachedIndex(its, i, center) ==
  CHOOSE j \in i..(Len(its) - 1) :
    /\ j = i \/ its[j + 1].rect.center.x <= center.x
    /\ \A k \in (j + 1)..(Len(its) - 1) : its[k + 1].rect.center.x > center.x

\* C6: in a single row, every move to the right along the row takes the target
\* index to the rightmost item whose center the dragged center has reached, with
\* the items between shifted one cell to the left; and every drop reports
\* onDragEnd(i, j) for that target and the host's order has item i moved to j.
C6_RightwardDragReorders ==
  [][/\ (/\ cols[MainGrid] = 4
         /\ DragMoves(MainGrid)
         /\ slot'[MainGrid].previousCenter.y = CenterBefore(MainGrid).y
         /\ slot'[MainGrid].previousCenter.x >= CenterBefore(MainGrid).x
         /\ TargetBefore(MainGrid) =
              ReachedIndex(slot'[MainGrid].items, slot'[MainGrid].activeIndex,
                           CenterBefore(MainGrid)))
        => LET i == slot'[MainGrid].activeIndex
               j == ReachedIndex(slot'[MainGrid].items, i, slot'[MainGrid].previousCenter)
           IN /\ state'[MainGrid].targetIndex = j
              /\ \A k \in (i + 1)..j :
                   tf'[MainGrid][slot'[MainGrid].items[k + 1].id] = Pt(-CellW, 0)
     /\ \A n \in 1..Len(emitted') :
          (emitted'[n].grid = MainGrid /\ emitted'[n].name = "onDragEnd")
            => /\ emitted'[n].a = state[MainGrid].activeItem.index
               /\ emitted'[n].b = state[MainGrid].targetIndex
               /\ dom'[MainGrid] = arrayMove(dom[MainGrid], emitted'[n].a, emitted'[n].b)]_vars

\* The dragged center crossed center `tc` in the move from `prev` to `cur`: it
\* was strictly on one side and is on or past it, along an axis on which the move
\* is at least as long as on the other, and within IconSize of it on the other
ActuallyCrossed(prev, cur, tc) ==
  \/ /\ Abs(cur.x - prev.x) >= Abs(cur.y - prev.y)
     /\ (prev.x < tc.x /\ cur.x >= tc.x) \/ (prev.x > tc.x /\ cur.x <= tc.x)
     /\ Abs(cur.y - tc.y) < IconSize
  \/ /\ Abs(cur.y - prev.y) >= Abs(cur.x - prev.x)
     /\ (prev.y < tc.y /\ cur.y >= tc.y) \/ (prev.y > tc.y /\ cur.y <= tc.y)
     /\ Abs(cur.x - tc.x) < IconSize

\* C7: a move changes the target index only to an item other than the dragged
\* one whose center the dragged center actually crossed in that move; a move
\* that crosses no center leaves the target index as it was.
C7_TargetChangesOnlyOnCrossing ==
  [][\A g \in Grids :
       (DragMoves(g) /\ slot'[g].targetIndex # TargetBefore(g)) =>
         /\ slot'[g].targetIndex # slot'[g].activeIndex
         /\ slot'[g].targetIndex \in 0..(Len(slot'[g].items) - 1)
         /\ ActuallyCrossed(CenterBefore(g), slot'[g].previousCenter,
                            slot'[g].items[slot'[g].targetIndex + 1].rect.center)]_vars

\* A move has just changed the target index
C7_TargetChanged ==
  /\ state[MainGrid] # NIL
  /\ state[MainGrid].targetIndex # state[MainGrid].activeItem.index
  /\ EmittedOn(emitted, MainGrid, "onIndexChange")

InRange(g, n) == n \in 0..(Len(items[g]) - 1)

\* C8: during a drag the engine's targetIndex lies in [0, itemCount-1] and is the
\* one SlotDetection holds; every index reported by onIndexChange and onDragEnd
\* lies in that range.
C8_TargetIndexInRange ==
  /\ \A g \in Grids :
       state[g] # NIL =>
         /\ InRange(g, state[g].targetIndex)
         /\ slot[g].layout # NIL => slot[g].targetIndex = state[g].targetIndex
  /\ \A n \in 1..Len(emitted) :
       emitted[n].name \in {"onIndexChange", "onDragEnd"} =>
         InRange(emitted[n].grid, emitted[n].a) /\ InRange(emitted[n].grid, emitted[n].b)

\* A drop reported the last index of the grid as its target
C8_DroppedAtLastIndex ==
  \E n \in 1..Len(emitted) :
    /\ emitted[n].name = "onDragEnd"
    /\ emitted[n].a = 0
    /\ emitted[n].b = Len(items[emitted[n].grid]) - 1

\* ------------------------------------------------------------------------
\* GridTransforms on its own: any sequence of calls
\* ------------------------------------------------------------------------
\* The indices a caller passes: those of the items, and one past either end
ShiftIndices == -1..Len(MainItems)
SomeShifted(g) == \E i \in 1..Len(items[g]) : tf[g][items[g][i].id] # NoTf

\* each call is made on the transforms of the mounted grid
TransformsCachePositions ==
  /\ events[MainGrid]
  /\ Commit(GridTransforms_cachePositions(World, MainGrid))

TransformsApplyShifts(activeIndex, targetIndex) ==
  /\ events[MainGrid]
  /\ Commit([GridTransforms_applyShifts(World, MainGrid, activeIndex, targetIndex)
               EXCEPT !.lastCall = [name |-> "applyShifts", a |-> activeIndex,
                                    b |-> targetIndex,
                                    shifted |-> SomeShifted(MainGrid)]])

TransformsReset ==
  /\ events[MainGrid]
  /\ Commit([GridTransforms_reset(World, MainGrid)
               EXCEPT !.lastCall = [name |-> "reset", a |-> 0, b |-> 0,
                                    shifted |-> SomeShifted(MainGrid)]])

NextTransforms ==
  \/ TransformsCachePositions
  \/ \E activeIndex \in ShiftIndices, targetIndex \in ShiftIndices :
       TransformsApplyShifts(activeIndex, targetIndex)
  \/ TransformsReset

SpecTransforms == InitDrag /\ [][NextTransforms]_vars

\* C9: a reset() call leaves every cached item with no transform, and a reset()
\* that follows a reset() changes nothing; applyShifts(a, a) leaves what reset()
\* leaves, for every a.
C9_ResetClearsTransforms ==
  /\ [][lastCall'.name = "reset" =>
          /\ \A i \in 1..Len(items'[MainGrid]) :
               tf'[MainGrid][items'[MainGrid][i].id] = NoTf
          /\ lastCall.name = "reset" => tf' = tf]_vars
  /\ [](\A a \in ShiftIndices :
          GridTransforms_applyShifts(World, MainGrid, a, a)
            = GridTransforms_reset(World, MainGrid))

\* reset() was called on items that applyShifts had shifted
C9_ResetAfterShifts ==
  /\ lastCall.name = "reset" /\ lastCall.shifted
  /\ Len(items[MainGrid]) = Len(MainItems)

\* ------------------------------------------------------------------------
\* The folder-creation policy (useFolderCreation) under useDragGrid's events
\* ------------------------------------------------------------------------
FolderIds == {"d"}
\* useGrid's getItemType(id)
getItemType(id) ==
  IF id \in FolderIds THEN "folder" ELSE IF id \in ItemIds THEN "app" ELSE NULL

NoTimer == 0     \* hoverRef.current.timerId = null

\* clearHoverTimer()
clearHoverTimer(w) ==
  [w EXCEPT !.timers = IF w.hoverRef # NIL /\ w.hoverRef.timerId # NoTimer
                       THEN {t \in @ : t.id # w.hoverRef.timerId} ELSE @,
            !.hoverRef = NIL]

setDropTarget(w, v) == [w EXCEPT !.dropTarget = v]

\* setTimeout(callback, folderCreationDelay): the id it returns
NewTimerId(w) ==
  CHOOSE i \in 1..MaxTimers :
    /\ \A t \in w.timers : t.id # i
    /\ \A j \in 1..(i - 1) : \E t \in w.timers : t.id = j

\* the app-over-folder branch without its clearHoverTimer() calls
appOverFolderKeepingTimer(w, overId, overlapRatio) ==
  IF overlapRatio >= OverlapThreshold
  THEN setDropTarget(w, [id |-> overId, action |-> "add-to-folder"])
  ELSE setDropTarget(w, NIL)

\* handleDragMove, app over folder: add to folder, only if overlap meets threshold
appOverFolder(w, overId, overlapRatio) ==
  IF overlapRatio >= OverlapThreshold
  THEN setDropTarget(clearHoverTimer(w), [id |-> overId, action |-> "add-to-folder"])
  ELSE setDropTarget(clearHoverTimer(w), NIL)

\* useFolderCreation.handleDragMove(info); overlap is NIL or [targetId, ratio]
useFolderCreation_handleDragMove(w, active, overlap) ==
  IF overlap = NIL \/ overlap.targetId = active
  THEN setDropTarget(clearHoverTimer(w), NIL)
  ELSE LET overId == overlap.targetId
           activeType == getItemType(active)
           overType == getItemType(overId)
       IN IF activeType # "app" THEN setDropTarget(clearHoverTimer(w), NIL)
          ELSE IF overType = "folder" THEN appOverFolder(w, overId, overlap.ratio)
          ELSE IF overType = "app"
          THEN IF overlap.ratio < OverlapThreshold
               THEN setDropTarget(clearHoverTimer(w), NIL)
               ELSE IF w.hoverRef # NIL /\ w.hoverRef.id = overId THEN w
               ELSE LET w1 == setDropTarget(clearHoverTimer(w), NIL)
                        timerId == NewTimerId(w1)
                    IN [w1 EXCEPT !.timers = @ \cup {[id |-> timerId, overId |-> overId,
                                                      remaining |-> DwellTicks]},
                                  !.hoverRef = [id |-> overId, timerId |-> timerId,
                                                triggered |-> FALSE]]
          ELSE setDropTarget(clearHoverTimer(w), NIL)

\* The callback handleDragMove passes to setTimeout
useFolderCreation_dwellTimeout(w, t) ==
  LET w1 == setDropTarget([w EXCEPT !.timers = @ \ {t}],
                          [id |-> t.overId, action |-> "create-folder"])
  IN IF w1.hoverRef # NIL
     THEN [w1 EXCEPT !.hoverRef.triggered = TRUE, !.hoverRef.timerId = NoTimer]
     ELSE w1

\* useDragGrid's complete(): setActiveId(null)
complete(w) == [Emit(w, MainGrid, "complete", 0, 0) EXCEPT !.activeId = NULL]

\* useDragGrid's reorder(): the order with the item at fromIndex moved to toIndex
reorder(w, fromIndex, toIndex) ==
  LET w1 == Emit(w, MainGrid, "reorder", fromIndex, toIndex)
  IN IF fromIndex = toIndex THEN w1
     ELSE [w1 EXCEPT !.dom[MainGrid] = arrayMove(@, fromIndex, toIndex)]

\* handleDragEnd performing the folder action whether or not its indicator shows
handleDragEndWithoutIndicator(w, active, overId, overlapRatio, fromIndex, toIndex) ==
  LET w1 == setDropTarget(clearHoverTimer(w), NIL)
      activeType == getItemType(active)
      overType == getItemType(overId)
  IN IF overId = NULL \/ overId = active \/ overlapRatio < OverlapThreshold
     THEN complete(reorder(w1, fromIndex, toIndex))
     ELSE IF activeType = "app" /\ overType = "app"
     THEN complete(Emit(w1, MainGrid, "onCreateFolder", active, overId))
     ELSE IF activeType = "app" /\ overType = "folder"
     THEN complete(Emit(w1, MainGrid, "onAddToFolder", overId, active))
     ELSE complete(reorder(w1, fromIndex, toIndex))

\* useFolderCreation.handleDragEnd(info, reorder, complete); overId is NULL when
\* nothing is overlapped
useFolderCreation_handleDragEnd(w, active, overId, overlapRatio, fromIndex, toIndex) ==
  LET currentDropTarget == w.dropTarget
      w1 == setDropTarget(clearHoverTimer(w), NIL)
      activeType == getItemType(active)
      overType == getItemType(overId)
      shows(action) == currentDropTarget = [id |-> overId, action |-> action]
  IN IF overId = NULL \/ overId = active \/ overlapRatio < OverlapThreshold
     THEN complete(reorder(w1, fromIndex, toIndex))
     ELSE IF activeType = "app" /\ overType = "app"
     THEN IF shows("create-folder")
          THEN complete(Emit(w1, MainGrid, "onCreateFolder", active, overId))
          ELSE complete(reorder(w1, fromIndex, toIndex))
     ELSE IF activeType = "app" /\ overType = "folder"
     THEN IF shows("add-to-folder")
          THEN complete(Emit(w1, MainGrid, "onAddToFolder", overId, active))
          ELSE complete(reorder(w1, fromIndex, toIndex))
     ELSE complete(reorder(w1, fromIndex, toIndex))

\* handleGetDropAnimationTarget without its test of the dragged item's type
dropAnimationTargetOfAnyType(active, overId, overlapRatio) ==
  IF overId = NULL \/ overlapRatio < OverlapThreshold THEN "undefined"
  ELSE IF getItemType(overId) \in {"app", "folder"} THEN "null" ELSE "undefined"

\* useGrid's handleGetDropAnimationTarget(info): "null" skips the drop animation,
\* "undefined" asks for the default one
handleGetDropAnimationTarget(active, overId, overlapRatio) ==
  IF overId = NULL \/ overlapRatio < OverlapThreshold THEN "undefined"
  ELSE IF getItemType(active) = "app" /\ getItemType(overId) \in {"app", "folder"}
       THEN "null"
       ELSE "undefined"

\* overlap?.targetId ?? null and overlap?.ratio ?? 0
OverId(overlap) == IF overlap = NIL THEN NULL ELSE overlap.targetId
OverRatio(overlap) == IF overlap = NIL THEN 0 ELSE overlap.ratio

\* useDragGrid's getDropAnimationTarget handler
useDragGrid_getDropAnimationTarget(w) ==
  handleGetDropAnimationTarget(w.activeId, OverId(w.over), OverRatio(w.over))

\* useDragGrid's onDragEnd handler: it reports the overlap at the drop to handleDragEnd
useDragGrid_onDragEnd(w, fromIndex, toIndex) ==
  [useFolderCreation_handleDragEnd(w, w.activeId, OverId(w.over), OverRatio(w.over),
                                   fromIndex, toIndex)
     EXCEPT !.hovered = NIL, !.over = NIL,
            !.lastCall = [NoCall EXCEPT !.name = "handleDragEnd"]]

InitFolder ==
  /\ EngineInit({MainGrid})
  /\ NoFolders
  /\ dom = [g \in Grids |-> IF g = MainGrid THEN MainItems ELSE <<>>]
  /\ cols = [g \in Grids |-> 4]
  /\ registered = <<MainGrid>>
  /\ activeGridId = NULL

\* What useDragGrid's handlers find with findHighestOverlap: nothing, or an item
\* of the grid with a ratio on either side of the threshold
Overlaps ==
  {NIL} \cup {[targetId |-> id, ratio |-> r] :
                id \in SeqToSet(MainItems), r \in {RatioBelow, RatioAbove}}

\* The app a move event of the drag of `active` reports as hovered with enough
\* overlap, with the time it has been so without a break
HoveredAfterMove(active, overlap) ==
  IF /\ getItemType(active) = "app"
     /\ overlap # NIL
     /\ overlap.targetId # active
     /\ getItemType(overlap.targetId) = "app"
     /\ overlap.ratio >= OverlapThreshold
  THEN IF hovered # NIL /\ hovered.id = overlap.targetId THEN hovered
       ELSE [id |-> overlap.targetId, since |-> 0]
  ELSE NIL

\* useDragGrid's onDragMove handler: it reports the overlap to handleDragMove
useDragGrid_onDragMove(w, overlap) ==
  [useFolderCreation_handleDragMove(w, w.activeId, overlap)
     EXCEPT !.hovered = HoveredAfterMove(w.activeId, overlap),
            !.over = overlap,
            !.lastCall = [NoCall EXCEPT !.name = "handleDragMove"]]

\* The pointermove that activates a drag of item e: the engine emits onDragStart
\* and, in the same task, the first onDragMove
FolderDragStart(e, overlap) ==
  /\ events[MainGrid]
  /\ activeId = NULL
  /\ gestures < FolderGestures
  /\ e \in SeqToSet(dom[MainGrid])
  /\ OverId(overlap) # e
  /\ Commit(useDragGrid_onDragMove([World EXCEPT !.activeId = e, !.gestures = @ + 1,
                                                 !.drop = NIL], overlap))

\* A later pointermove of the drag
FolderDragMove(overlap) ==
  /\ events[MainGrid]
  /\ activeId # NULL
  /\ drop = NIL
  /\ OverId(overlap) # activeId
  /\ Cardinality(timers) < MaxTimers
  /\ Commit(useDragGrid_onDragMove(World, overlap))

\* a dwell timer that is due fires
FolderDwellTimeout(t) ==
  /\ t \in timers
  /\ t.remaining = 0
  /\ Commit(useFolderCreation_dwellTimeout(World, t))

\* the clock advances by one tick, once the timers that are due have fired
FolderTick ==
  /\ \A t \in timers : t.remaining > 0
  /\ timers # {} \/ (hovered # NIL /\ hovered.since < DwellTicks)
  /\ Commit([World EXCEPT
               !.timers = {[t EXCEPT !.remaining = @ - 1] : t \in timers},
               !.hovered = IF hovered # NIL
                           THEN [hovered EXCEPT !.since = Min(@ + 1, DwellTicks)]
                           ELSE NIL])

\* pointerup: the engine asks getDropAnimationTarget; on "null" it destroys the
\* ghost and emits onDragEnd in the same task, else it awaits the animation
FolderPointerUp(toIndex) ==
  /\ events[MainGrid]
  /\ activeId # NULL
  /\ drop = NIL
  /\ LET fromIndex == IndexOf(dom[MainGrid], activeId)
         answer == useDragGrid_getDropAnimationTarget(World)
         w1 == [World EXCEPT !.drop = [answer |-> answer, fromIndex |-> fromIndex,
                                       toIndex |-> toIndex, item |-> activeId,
                                       over |-> over]]
     IN IF answer = "null"
        THEN Commit(useDragGrid_onDragEnd(w1, fromIndex, toIndex))
        ELSE Commit(w1)

\* the drop animation ends: the engine emits onDragEnd
FolderAnimationDone ==
  /\ events[MainGrid]
  /\ activeId # NULL
  /\ drop # NIL
  /\ Commit(useDragGrid_onDragEnd(World, drop.fromIndex, drop.toIndex))

\* pointercancel during the drag: useDragGrid's onDragCancel handler
FolderDragCancel ==
  /\ events[MainGrid]
  /\ activeId # NULL
  /\ drop = NIL
  /\ Commit([World EXCEPT !.activeId = NULL, !.hovered = NIL, !.over = NIL,
                          !.lastCall = [NoCall EXCEPT !.name = "onDragCancel"]])

\* the component unmounts: the cleanup of useFolderCreation's effect
FolderUnmount ==
  /\ events[MainGrid]
  /\ Commit([clearHoverTimer(World) EXCEPT !.events[MainGrid] = FALSE,
                                          !.hovered = NIL, !.over = NIL])

\* the values a pending timer can have
TimerRecords == [id : 1..MaxTimers, overId : ItemIds, remaining : 0..DwellTicks]

NextFolder ==
  \/ \E e \in ItemIds, overlap \in Overlaps : FolderDragStart(e, overlap)
  \/ \E overlap \in Overlaps : FolderDragMove(overlap)
  \/ \E t \in TimerRecords : FolderDwellTimeout(t)
  \/ FolderTick
  \/ \E toIndex \in 0..(Len(MainItems) - 1) : FolderPointerUp(toIndex)
  \/ FolderAnimationDone
  \/ FolderDragCancel
  \/ FolderUnmount

SpecFolder == InitFolder /\ [][NextFolder]_vars

\* The create-folder indicator is shown for item id
CreateFolderShown(id) == dropTarget = [id |-> id, action |-> "create-folder"]

\* C10: while an app is dragged over another app with enough overlap, the
\* create-folder indicator for that app is shown exactly when the app has been
\* the hovered target for DwellTicks without a break (once a timer that is due
\* has fired); until then exactly one timer is pending, it is the hovered
\* target's, and it has the rest of the full delay to run.
C10_DwellIndicator ==
  (/\ activeId # NULL /\ getItemType(activeId) = "app"
   /\ hovered # NIL
   /\ \A t \in timers : t.remaining > 0)
  => /\ CreateFolderShown(hovered.id) <=> hovered.since >= DwellTicks
     /\ hovered.since < DwellTicks =>
          timers = {[id |-> hoverRef.timerId, overId |-> hovered.id,
                     remaining |-> DwellTicks - hovered.since]}

\* The last task was a move event of the drag of an app that found the app over
\* a folder
MovedOverFolder ==
  /\ lastCall.name = "handleDragMove"
  /\ getItemType(activeId) = "app"
  /\ over # NIL
  /\ getItemType(over.targetId) = "folder"

\* C11: a move event that finds the dragged app over a folder with a ratio of
\* at least the threshold leaves the add-to-folder indicator set for that folder
\* and no dwell timer pending; with a ratio below the threshold it leaves no
\* indicator.
C11_AddToFolderAtOnce ==
  MovedOverFolder =>
    /\ timers = {}
    /\ hoverRef = NIL
    /\ IF over.ratio >= OverlapThreshold
       THEN dropTarget = [id |-> over.targetId, action |-> "add-to-folder"]
       ELSE dropTarget = NIL

\* An app has just been moved onto a folder, with enough overlap
C11_MovedOntoFolder ==
  /\ MovedOverFolder
  /\ over.ratio >= OverlapThreshold
  /\ dropTarget # NIL

\* The events `ev` are the events `expected`: the same names with the same
\* arguments, in the same order
SameEvents(ev, expected) ==
  /\ Len(ev) = Len(expected)
  /\ \A i \in 1..Len(ev) :
       /\ ev[i].name = expected[i].name
       /\ ev[i].grid = expected[i].grid
       /\ ev[i].a = expected[i].a
       /\ ev[i].b = expected[i].b

\* The last task ran the policy's handleDragEnd
DropHandled == lastCall.name = "handleDragEnd"
\* The events a plain reorder of the drop emits: reorder() with the engine's
\* indices, then complete()
PlainReorder ==
  <<[grid |-> MainGrid, name |-> "reorder", a |-> drop.fromIndex, b |-> drop.toIndex],
    [grid |-> MainGrid, name |-> "complete", a |-> 0, b |-> 0]>>

\* C12: while a folder is the dragged item no indicator is shown and no dwell
\* timer is pending; its drop gets the default animation and is a plain reorder:
\* reorder() and complete(), neither onCreateFolder nor onAddToFolder.
C12_FolderDragIsPlainReorder ==
  /\ (activeId # NULL /\ getItemType(activeId) = "folder") =>
       /\ dropTarget = NIL
       /\ timers = {}
       /\ hoverRef = NIL
  /\ (drop # NIL /\ getItemType(drop.item) = "folder") =>
       /\ drop.answer = "undefined"
       /\ DropHandled => SameEvents(emitted, PlainReorder)

\* A folder was dropped on another item with enough overlap
C12_FolderDroppedOnItem ==
  /\ DropHandled
  /\ getItemType(drop.item) = "folder"
  /\ drop.over # NIL
  /\ drop.over.ratio >= OverlapThreshold
  /\ drop.fromIndex # drop.toIndex

\* The indicator `shown` is the one for dropping on the item of overlap `ov`:
\* its id is the item's, its action the one for the item's type, and the overlap
\* is at least the threshold
IndicatorMatches(shown, ov) ==
  /\ shown # NIL
  /\ ov # NIL
  /\ shown.id = ov.targetId
  /\ shown.action = (IF getItemType(ov.targetId) = "folder" THEN "add-to-folder"
                     ELSE "create-folder")
  /\ ov.ratio >= OverlapThreshold

\* The events the folder action of indicator `shown` emits, then complete()
FolderAction(shown, active) ==
  <<IF shown.action = "create-folder"
    THEN [grid |-> MainGrid, name |-> "onCreateFolder", a |-> active, b |-> shown.id]
    ELSE [grid |-> MainGrid, name |-> "onAddToFolder", a |-> shown.id, b |-> active],
    [grid |-> MainGrid, name |-> "complete", a |-> 0, b |-> 0]>>

\* C13: handleDragEnd performs the folder action of the indicator shown at the
\* drop, and nothing else, if that indicator matches the item dropped on with
\* enough overlap; in every other case it calls reorder() with the engine's
\* fromIndex/toIndex, which moves the item in the order. Either way it calls
\* complete() once, after the action, and leaves no indicator.
C13_DropDoesOneAction ==
  [][DropHandled' =>
       /\ dropTarget' = NIL
       /\ activeId' = NULL
       /\ IF IndicatorMatches(dropTarget, drop'.over)
          THEN /\ SameEvents(emitted', FolderAction(dropTarget, drop'.item))
               /\ dom' = dom
          ELSE /\ SameEvents(emitted', PlainReorder')
               /\ dom'[MainGrid] =
                    arrayMove(dom[MainGrid], drop'.fromIndex, drop'.toIndex)]_vars

\* A drop has just created a folder
C13_FolderCreatedOnDrop ==
  /\ DropHandled
  /\ EmittedOn(emitted, MainGrid, "onCreateFolder")

\* The drop the last task handled was consumed by a folder action
FolderActionDone(ev) ==
  EmittedOn(ev, MainGrid, "onCreateFolder") \/ EmittedOn(ev, MainGrid, "onAddToFolder")

\* C14: the answer of getDropAnimationTarget at a drop is null (no animation)
\* exactly when handleDragEnd consumes that drop by a folder action; a drop that
\* ends as a plain reorder was given the default animation.
C14_AnimationSkippedIffFolderAction ==
  DropHandled => (drop.answer = "null" <=> FolderActionDone(emitted))

\* ------------------------------------------------------------------------
\* Cancellation
\* ------------------------------------------------------------------------
\* Nothing of a drag is left on engine g: no DragState, no ghost reference, no
\* slot cache, and no transform on a cached item
NothingLeft(st, gh, sl, its, tfs, g) ==
  /\ st[g] = NIL
  /\ gh[g] = NULL
  /\ sl[g] = NoSlot
  /\ \A i \in 1..Len(its[g]) : tfs[g][its[g][i].id] = NoTf

Cancelled(g) ==
  /\ Dragging(g)
  /\ state'[g] = NIL
  /\ ~EmittedOn(emitted', g, "onDragEnd")
\* The onDragCancel events among `ev` that engine g emitted
CancelEvents(ev, g) ==
  Cardinality({i \in 1..Len(ev) : ev[i].grid = g /\ ev[i].name = "onDragCancel"})

C17_TimerOnlyWhileHovering ==
  /\ Cardinality(timers) <= 1
  /\ \A t \in timers :
       /\ events[MainGrid]
       /\ activeId # NULL
       /\ drop = NIL
       /\ over # NIL
       /\ over.targetId = t.overId
       /\ over.ratio >= OverlapThreshold

\* ------------------------------------------------------------------------
\* The coordinator's boundary check: three grids that register, unregister,
\* become active and are hidden or shown, and a drag of the folder modal
\* ------------------------------------------------------------------------
SideGrid == "side-grid"

\* A fresh coordinator, next to the three mounted engines
InitBoundaries ==
  /\ EngineInit(Grids)
  /\ NoFolders
  /\ dom = [g \in Grids |-> IF g = "main-grid" THEN SubSeq(MainItems, 1, 1)
                            ELSE IF g = "folder-modal" THEN FolderItems ELSE <<>>]
  /\ cols = [g \in Grids |-> 2]
  /\ registered = <<>>
  /\ activeGridId = NULL

\* a host's effect registers grid g (useDragHandoff, FolderModal)
CoordinatorRegister(g) ==
  /\ ~IsRegistered(World, g)
  /\ Commit(DragCoordinator_register(World, g))

\* the cleanup of a host's effect unregisters grid g
CoordinatorUnregister(g) ==
  /\ IsRegistered(World, g)
  /\ Commit(DragCoordinator_unregister(World, g))

\* a host calls setActiveGrid(gridId), with an id or with null
CoordinatorSetActiveGrid(g) ==
  /\ activeGridId # g
  /\ Commit(DragCoordinator_setActiveGrid(World, g))

\* container g is hidden (c = 0: its getBoundingClientRect() is empty) or shown
\* again, while no gesture is going on in it
ContainerResize(g, c) ==
  /\ cols[g] # c
  /\ ~Armed(g) /\ state[g] = NIL /\ pending[g] = <<>>
  /\ Commit([World EXCEPT !.cols[g] = c])

\* a host calls checkBoundaries(p)
CheckBoundaries(p) ==
  /\ Commit([World EXCEPT !.lastCall = [name |-> "checkBoundaries", a |-> p.x, b |-> p.y,
                                        shifted |-> FALSE,
                                        result |-> checkBoundaries(World, p)]])

\* pointerdown on an item of the folder modal, when it is shown
BoundaryPointerDown(e) == cols["folder-modal"] > 0 /\ HandoffPointerDown(e)

\* Pointer positions: inside each of the three containers, on the corner of the
\* third one, and outside all of them
BoundaryPoints ==
  {ItemCenter(g, 2, 1) : g \in Grids}
    \cup {Pt(OriginX(SideGrid), OriginY(SideGrid)), Pt(HalfW, 3 * FolderTop)}

\* The host's onHandoff leaves the grids as they were, or throws
NextBoundaries ==
  \/ \E g \in Grids : CoordinatorRegister(g)
  \/ \E g \in Grids : CoordinatorUnregister(g)
  \/ \E g \in Grids \cup {NULL} : CoordinatorSetActiveGrid(g)
  \/ \E g \in Grids, c \in {0, 2} : ContainerResize(g, c)
  \/ \E p \in BoundaryPoints : CheckBoundaries(p)
  \/ \E e \in ItemIds : BoundaryPointerDown(e)
  \/ \E p \in HandoffPoints, react \in BOOLEAN : PointerMove(p, react)
  \/ \E i \in 1..MaxCalls, outcome \in {"unchanged", "throws"} : HandoffCallback(i, outcome)
  \/ \E i \in 1..MaxCalls : HandoffFrame(i)
  \/ \E i \in 1..MaxCalls : HandoffResume(i)

SpecBoundaries == InitBoundaries /\ [][NextBoundaries]_vars

\* The place of grid g in the coordinator's registration order (0 when absent)
Place(g) == IndexOf(registered, g) + 1
OtherGrids == {g \in Grids : Place(g) > 0 /\ g # activeGridId}
\* container g has non-zero bounds and point p is in them
Contains(g, p) ==
  LET rect == ContainerRect(g, cols[g]) IN
  /\ rect.right > rect.left /\ rect.bottom > rect.top
  /\ rect.left <= p.x /\ p.x <= rect.right
  /\ rect.top <= p.y /\ p.y <= rect.bottom
\* g is the first grid of set S in registration order
FirstOf(g, S) == g \in S /\ \A h \in S : Place(g) <= Place(h)
\* no handoff is needed at point p
NoHandoffNeeded(p) ==
  \/ activeGridId = NULL
  \/ isHandingOff
  \/ Place(activeGridId) = 0
  \/ ~isPointOutsideRect(p, ContainerRect(activeGridId, cols[activeGridId]))

CheckedPoint == Pt(lastCall'.a, lastCall'.b)

\* C18: checkBoundaries(pointer) answers null when there is no active grid, a
\* handoff is in progress, the active grid is not registered or the pointer is
\* inside the active grid's bounds. Otherwise it answers the first other
\* registered grid with non-zero bounds that contains the pointer, or, when none
\* contains it, the first other registered grid, and null only when no other
\* grid is registered. It never answers the active grid's own id.
C18_CheckBoundariesTarget ==
  [][lastCall'.name = "checkBoundaries" =>
       LET r == lastCall'.result
           containing == {g \in OtherGrids : Contains(g, CheckedPoint)}
       IN /\ r = NULL \/ (r # activeGridId /\ Place(r) > 0)
          /\ NoHandoffNeeded(CheckedPoint) => r = NULL
          /\ ~NoHandoffNeeded(CheckedPoint) =>
               /\ r = NULL <=> OtherGrids = {}
               /\ containing # {} => FirstOf(r, containing)
               /\ (containing = {} /\ OtherGrids # {}) => FirstOf(r, OtherGrids)]_vars

\* checkBoundaries has answered a grid that contains the pointer and is not the
\* first other registered grid
C18_FoundBehindAnotherGrid ==
  /\ lastCall.name = "checkBoundaries"
  /\ lastCall.result # NULL
  /\ Contains(lastCall.result, Pt(lastCall.a, lastCall.b))
  /\ \E g \in OtherGrids : Place(g) < Place(lastCall.result)

\* ------------------------------------------------------------------------
\* Activation: clicks and drags on the main grid, with moves at, below and
\* beyond the activation distance
\* ------------------------------------------------------------------------
ActivationPointerDown(e) == gestures < ActivationGestures /\ PointerDown(MainGrid, e)

\* Pointer positions around the center of the first item (where a pointerdown on
\* it lands): on it, one pixel less than the activation distance away, exactly
\* that far (along an axis and obliquely), and farther (along an axis, and
\* obliquely with both coordinates below the distance)
ActivationOffsets ==
  {Pt(0, 0), Pt(ACTIVATION_DISTANCE - 1, 0), Pt(0, 1 - ACTIVATION_DISTANCE),
   Pt(ACTIVATION_DISTANCE, 0), Pt(ACTIVATION_DISTANCE - 2, ACTIVATION_DISTANCE - 1),
   Pt(ACTIVATION_DISTANCE + 1, 0), Pt(ACTIVATION_DISTANCE - 1, ACTIVATION_DISTANCE - 1)}
ActivationPoints ==
  {Pt(ItemCenter(MainGrid, 2, 0).x + d.x, ItemCenter(MainGrid, 2, 0).y + d.y) :
     d \in ActivationOffsets}

NextActivation ==
  \/ \E e \in ItemIds : ActivationPointerDown(e)
  \/ \E p \in ActivationPoints : PointerMove(p, FALSE)
  \/ \E answer \in {"undefined", "null"} : PointerUp(answer)
  \/ PointerCancel
  \/ \E g \in Grids : AnimationTimer(g)

SpecActivation == InitDrag /\ [][NextActivation]_vars

\* The squared distance of point q from point p
Distance2(p, q) == (q.x - p.x) * (q.x - p.x) + (q.y - p.y) * (q.y - p.y)
\* The places of the events of that name on grid g among the events ev
EventsOn(ev, g, name) == {i \in 1..Len(ev) : ev[i].grid = g /\ ev[i].name = name}
\* Engine g is at rest: no drag, no ghost, no drop in flight
AtRest(st, gh, pd, g) == st[g] = NIL /\ gh[g] = NULL /\ pd[g] = <<>>

\* Tracker g takes no part in the step (it is not dragging before or after it)
\* and its engine is at rest: nothing reaches the host and the engine stays at
\* rest, whatever the step is (a move, the release, a cancel)
ClickIsSilent(g) ==
  (~tracker[g].isDragging /\ ~tracker'[g].isDragging /\ AtRest(state, ghost, pending, g)) =>
    /\ \A i \in 1..Len(emitted') : emitted'[i].grid # g
    /\ AtRest(state', ghost', pending', g)

\* onDragStart is reported in the step that confirms the drag and in no other,
\* once, and before the onDragMove of that step; onDragMove is reported by a
\* tracker that is dragging
StartOnceAndFirst(g) ==
  /\ Cardinality(EventsOn(emitted', g, "onDragStart")) = (IF DragStarts(g) THEN 1 ELSE 0)
  /\ \A i \in EventsOn(emitted', g, "onDragStart"), j \in EventsOn(emitted', g, "onDragMove") :
       i < j
  /\ EventsOn(emitted', g, "onDragMove") # {} => tracker'[g].isDragging
  /\ DragStarts(g) => tracker[g].armed /\ tracker[g].startPoint # NIL

\* C19 as stated: a drag is confirmed only by a move whose distance from the
\* pointerdown position exceeds the activation distance; a press whose moves all
\* stay within it is a click and reports nothing; and a confirmed drag reports
\* onDragStart exactly once, before any onDragMove.
C19_ConfirmedBeyondDistance ==
  [][\A g \in Grids :
       /\ DragStarts(g) =>
            /\ state'[g] # NIL
            /\ Distance2(tracker[g].startPoint, state'[g].currentPointer)
                 > ACTIVATION_DISTANCE * ACTIVATION_DISTANCE
       /\ ClickIsSilent(g)
       /\ StartOnceAndFirst(g)]_vars

\* C19, amended: a drag is confirmed by the first move whose distance from the
\* pointerdown position is the activation distance or more; a press whose
\* moves all stay below it is a click and reports nothing; and a confirmed drag
\* reports onDragStart exactly once, before any onDragMove.
C19_ConfirmedAtDistance ==
  [][\A g \in Grids :
       /\ DragStarts(g) =>
            /\ state'[g] # NIL
            /\ Distance2(tracker[g].startPoint, state'[g].currentPointer)
                 >= ACTIVATION_DISTANCE * ACTIVATION_DISTANCE
       /\ ClickIsSilent(g)
       /\ StartOnceAndFirst(g)]_vars

\* A drag is going on that was confirmed exactly at the activation distance
C19_ConfirmedAtTheDistance ==
  /\ tracker[MainGrid].isDragging
  /\ state[MainGrid] # NIL
  /\ EventsOn(emitted, MainGrid, "onDragStart") # {}
  /\ Distance2(tracker[MainGrid].startPoint, state[MainGrid].currentPointer)
       = ACTIVATION_DISTANCE * ACTIVATION_DISTANCE

\* ------------------------------------------------------------------------
\* Handoff: the item never appears in the target grid. The handoff scenes, where
\* the pointer may be released and pressed again on the modal's items
\* ------------------------------------------------------------------------
RegrabPointerDown(e) == gestures < RegrabGestures /\ PointerDown("folder-modal", e)

NextRegrab ==
  \/ \E e \in ItemIds : RegrabPointerDown(e)
  \/ \E p \in HandoffPoints, react \in BOOLEAN : PointerMove(p, react)
  \/ \E answer \in {"undefined", "null"} : PointerUp(answer)
  \/ \E g \in Grids : AnimationTimer(g)
  \/ \E i \in 1..MaxCalls, outcome \in {"moved", "unchanged", "throws"} :
       HandoffCallback(i, outcome)
  \/ \E i \in 1..MaxCalls : HandoffFrame(i)
  \/ \E i \in 1..MaxCalls : HandoffResume(i)

SpecRegrab == Init /\ [][NextRegrab]_vars

\* C20: when a handoff resolves because the target container holds no element
\* of the item after onHandoff and the two frames, it has returned false, the
\* ghost is out of the DOM, activeGridId is null and isHandingOff false, the
\* target engine was not started (no DragState, no ghost, no onDragStart, its
\* tracker not dragging), and the source engine holds no DragState either.
C20_TargetNotFound ==
  \A i \in Resolved({"notFound"}) :
    LET r == returned[i] IN
    /\ r.result = FALSE
    /\ r.ghost \notin body /\ removed[r.ghost] = 1
    /\ activeGridId = NULL
    /\ ~isHandingOff
    /\ state[r.to] = NIL /\ ghost[r.to] = NULL /\ ~tracker[r.to].isDragging
    /\ ~EmittedOn(emitted, r.to, "onDragStart")
    /\ state[r.from] = NIL

\* ------------------------------------------------------------------------
\* Rejected handoffs: the host calls handoff at any moment, while grids register
\* and unregister, the active grid is set, and an item of the folder modal is
\* dragged
\* ------------------------------------------------------------------------
RejectPointerDown(e) == gestures < RejectGestures /\ PointerDown("folder-modal", e)

NextReject ==
  \/ \E g \in Grids : CoordinatorRegister(g)
  \/ \E g \in Grids : CoordinatorUnregister(g)
  \/ \E g \in Grids \cup {NULL} : CoordinatorSetActiveGrid(g)
  \/ \E e \in ItemIds : RejectPointerDown(e)
  \/ \E p \in HandoffPoints : PointerMove(p, FALSE)
  \/ \E g \in Grids : CallHandoff(g)
  \/ \E i \in 1..MaxCalls, outcome \in {"unchanged", "throws"} : HandoffCallback(i, outcome)
  \/ \E i \in 1..MaxCalls : HandoffFrame(i)
  \/ \E i \in 1..MaxCalls : HandoffResume(i)

SpecReject == InitBoundaries /\ [][NextReject]_vars

\* The handoff calls that returned in the last task before the ghost was detached
RejectedEarly(ret) == {i \in 1..Len(ret) : ret[i].stage \in {"rejected", "aborted"}}

\* C21: a handoff call that returns before the ghost is detached returns false
\* and changes nothing: the engines (DragState, ghost, transforms, trackers), the
\* DOM, activeGridId, the registry, isHandingOff and the handoffs in flight (no
\* onHandoff is invoked) are as before the call, so a drag goes on where it was.
C21_RejectedHandoffChangesNothing ==
  [][RejectedEarly(returned') # {} =>
       /\ \A i \in RejectedEarly(returned') : returned'[i].result = FALSE
       /\ engineVars' = engineVars
       /\ coordVars' = coordVars
       /\ hostVars' = hostVars
       /\ policyVars' = policyVars
       /\ emitted' = <<>>]_vars

\* A handoff call was rejected because its target is not registered, while the
\* active grid's engine drags an item with its ghost
C21_RejectedDuringDrag ==
  /\ RejectedEarly(returned) # {}
  /\ ~isHandingOff
  /\ activeGridId # NULL /\ Place(activeGridId) > 0
  /\ state[activeGridId] # NIL /\ ghost[activeGridId] \in body
  /\ Place(returned[1].to) = 0

\* ------------------------------------------------------------------------
\* Handoff: the order of its steps
\* ------------------------------------------------------------------------
\* C22: a handoff detaches the ghost and cancels the source drag before it
\* invokes onHandoff, and starts the target's drag and sets activeGridId only
\* after the two frames: while a handoff awaits, the source engine holds no
\* DragState and no ghost and the detached ghost is in the DOM; when it has
\* resolved with true the target drags and activeGridId is the target; and at
\* no point do the source and the target engine of a handoff both hold a
\* DragState.
C22_HandoffOrder ==
  /\ [](/\ \A i \in 1..Len(calls) :
             LET c == calls[i] IN
             /\ ghost[c.from] # c.ghost /\ c.ghost \in body
             /\ ~(state[c.from] # NIL /\ state[c.to] # NIL)
        /\ \A i \in Resolved({"done"}) :
             LET r == returned[i] IN
             /\ state[r.to] # NIL /\ activeGridId = r.to
             /\ ~(state[r.from] # NIL /\ state[r.to] # NIL))
  /\ [][\A i \in 1..Len(calls') :
          (\A j \in 1..Len(calls) : calls[j].ghost # calls'[i].ghost) =>
            /\ calls'[i].pc = "onHandoff"
            /\ state'[calls'[i].from] = NIL
            /\ activeGridId' = calls'[i].from]_vars

\* ------------------------------------------------------------------------
\* Handoff while the source goes away: the handoff scenes, where the folder
\* modal may unmount and a host may cancel an engine's drag at any moment
\* ------------------------------------------------------------------------
FolderModal == "folder-modal"

\* The folder modal unmounts: the cleanups of useDragGrid's engine effect
\* (engine.destroy()) and of FolderModal's registration effect, and its elements
\* leave the DOM
FolderModalUnmount ==
  /\ events[FolderModal]
  /\ LET w1 == DragEngine_destroy(World, FolderModal)
         w2 == DragCoordinator_unregister(w1, FolderModal)
         w3 == IF w2.activeGridId = FolderModal
               THEN DragCoordinator_setActiveGrid(w2, NULL) ELSE w2
     IN Commit([w3 EXCEPT !.dom[FolderModal] = <<>>])

\* a host calls engine.cancel() on engine g
EngineCancel(g) ==
  /\ events[g]
  /\ state[g] # NIL \/ calls # <<>>
  /\ Commit(DragEngine_cancel(World, g, FALSE))

NextUnmount ==
  \/ \E e \in ItemIds : HandoffPointerDown(e)
  \/ \E p \in HandoffPoints, react \in BOOLEAN : PointerMove(p, react)
  \/ \E answer \in {"undefined", "null"} : PointerUp(answer)
  \/ PointerCancel
  \/ \E g \in Grids : AnimationTimer(g)
  \/ \E i \in 1..MaxCalls, outcome \in {"moved", "unchanged", "throws"} :
       HandoffCallback(i, outcome)
  \/ \E i \in 1..MaxCalls : HandoffFrame(i)
  \/ \E i \in 1..MaxCalls : HandoffResume(i)
  \/ FolderModalUnmount
  \/ \E g \in Grids : EngineCancel(g)

SpecUnmount == Init /\ [][NextUnmount]_vars

\* C23: from the detach on, the ghost of a handoff in flight stays in the DOM
\* with no remove() made on it, whatever is done to the source engine (cancel,
\* destroy and unregister by the unmounting modal); and a handoff that finds the
\* item completes by adopting that same element on the target engine.
C23_DetachedGhostSurvives ==
  /\ \A i \in 1..Len(calls) :
       /\ calls[i].ghost \in body
       /\ removed[calls[i].ghost] = 0
       /\ ghost[calls[i].from] # calls[i].ghost
  /\ \A i \in Resolved({"done"}) :
       LET r == returned[i] IN
       /\ r.result = TRUE
       /\ ghost[r.to] = r.ghost
       /\ r.ghost \in body /\ removed[r.ghost] = 0
       /\ state[r.to] # NIL /\ state[r.to].activeItem.id = r.item

\* A handoff has completed on the main grid after the folder modal, its source,
\* was destroyed and unregistered during the awaits
C23_CompletedAfterUnmount ==
  /\ \E i \in Resolved({"done"}) : returned[i].from = FolderModal
  /\ ~events[FolderModal]
  /\ ~IsRegistered(World, FolderModal)

\* ------------------------------------------------------------------------
\* Drops: the onDragEnd event
\* ------------------------------------------------------------------------
\* Engine g completes a drop in the step: its drop animation resolves, or the
\* pointer is released on its drag and the host answers null, and the engine
\* still holds the DragState
DropCompletes(g) ==
  /\ state[g] # NIL /\ events[g]
  /\ \/ Len(pending'[g]) < Len(pending[g])
     \/ /\ pointerDown /\ ~pointerDown'
        /\ tracker[g].isDragging /\ pending'[g] = pending[g]
        /\ EventsOn(emitted', g, "onDragCancel") = {}

\* C24: a drop that completes emits onDragEnd(fromIndex, toIndex) exactly once,
\* after the ghost of the drag is out of the DOM and released by the engine,
\* with fromIndex the dragged item's index (fixed at the start) and toIndex the
\* drag's last targetIndex; the handler finds the DragState still set, and the
\* DragState is cleared after it. No other step emits onDragEnd.
C24_DragEndOnceAfterGhost ==
  [][\A g \in Grids :
       LET ends == EventsOn(emitted', g, "onDragEnd") IN
       /\ Cardinality(ends) = (IF DropCompletes(g) THEN 1 ELSE 0)
       /\ \A i \in ends :
            /\ emitted'[i].a = state[g].activeItem.index
            /\ emitted'[i].b = state[g].targetIndex
            /\ ghost'[g] = NULL
            /\ ghost[g] \notin body'
            /\ lastCall'.name = "onDragEnd" /\ lastCall'.state
            /\ state'[g] = NIL]_vars

\* A drop has completed after its animation, with a reorder
C24_DroppedAfterAnimation ==
  /\ EventsOn(emitted, MainGrid, "onDragEnd") # {}
  /\ lastCall.name = "onDragEnd" /\ lastCall.a # lastCall.b
  /\ state[MainGrid] = NIL /\ body = {}

\* ------------------------------------------------------------------------
\* Drops that are abandoned: the drop scenes, where a host may cancel the
\* engine's drag or destroy the engine while the drop animation runs
\* ------------------------------------------------------------------------
\* useDragGrid's engine effect is cleaned up: engine.destroy()
EngineDestroy(g) ==
  /\ events[g]
  /\ Commit(DragEngine_destroy(World, g))

NextAbandon ==
  \/ \E e \in ItemIds : DropPointerDown(e)
  \/ \E p \in DropPoints : PointerMove(p, FALSE)
  \/ \E answer \in {"undefined", "null"} : PointerUp(answer)
  \/ \E g \in Grids : AnimationTimer(g)
  \/ \E g \in Grids : EngineCancel(g)
  \/ \E g \in Grids : EngineDestroy(g)

SpecAbandon == InitDrop /\ [][NextAbandon]_vars

\* Events of engine g among ev
EventsOf(ev, g) == {i \in 1..Len(ev) : ev[i].grid = g}

\* C25: when the animation of a drop resolves after cancel() or destroy() ran on
\* the engine during it, the step emits nothing on the engine and changes
\* nothing but the end of the wait itself; and no step emits an event on an
\* engine that has been destroyed.
C25_AbandonedDropIsSilent ==
  [][\A g \in Grids :
       /\ (Len(pending'[g]) < Len(pending[g]) /\ Head(pending[g]).abandoned) =>
            /\ EventsOf(emitted', g) = {}
            /\ state' = state /\ ghost' = ghost /\ body' = body /\ removed' = removed
            /\ tf' = tf /\ slot' = slot /\ tracker' = tracker /\ dom' = dom
            /\ pending'[g] = Tail(pending[g])
       /\ ~events[g] => EventsOf(emitted', g) = {} /\ ~events'[g]]_vars

\* ------------------------------------------------------------------------
\* Moves of a drag: onDragMove and onIndexChange
\* ------------------------------------------------------------------------
\* The transforms GridTransforms.applyShifts(activeIndex, targetIndex) leaves on
\* the items the engine has cached after the step
ShiftsApplied(g, activeIndex, targetIndex) ==
  GridTransforms_applyShifts([World EXCEPT !.items[g] = items'[g]], g,
                             activeIndex, targetIndex).tf[g]

\* C26: every move of a drag reports onDragMove exactly once; it reports
\* onIndexChange(from, to), once and before the onDragMove, exactly when slot
\* detection answered a new target, with from the dragged item's index, to the
\* new target, the shifts of applyShifts(from, to) applied and the DragState's
\* targetIndex equal to `to`; and a step of an engine that is not dragging
\* reports neither.
C26_MoveEvents ==
  [][\A g \in Grids :
       LET moves == EventsOn(emitted', g, "onDragMove")
           changes == EventsOn(emitted', g, "onIndexChange")
       IN /\ Cardinality(moves) = (IF DragMoves(g) THEN 1 ELSE 0)
          /\ Cardinality(changes) =
               (IF DragMoves(g) /\ slot'[g].targetIndex # TargetBefore(g) THEN 1 ELSE 0)
          /\ \A i \in changes :
               /\ emitted'[i].a = state'[g].activeItem.index
               /\ emitted'[i].b = slot'[g].targetIndex
               /\ state'[g].targetIndex = emitted'[i].b
               /\ tf'[g] = ShiftsApplied(g, emitted'[i].a, emitted'[i].b)
               /\ \A j \in moves : i < j
          /\ (state[g] = NIL /\ ~DragStarts(g)) => moves = {} /\ changes = {}]_vars

\* A move of a drag has kept the target index, and reported onDragMove alone
C26_MovedWithoutIndexChange ==
  /\ state[MainGrid] # NIL /\ state[MainGrid].targetIndex # state[MainGrid].activeItem.index
  /\ EventsOn(emitted, MainGrid, "onDragMove") # {}
  /\ EventsOn(emitted, MainGrid, "onIndexChange") = {}

\* ------------------------------------------------------------------------
\* GridTransforms.applyShifts and the committed reorder
\* ------------------------------------------------------------------------
\* Where an item is displayed: its cached position moved by its transform
DisplayedAt(item, t) ==
  IF t = NoTf THEN Pt(item.rect.left, item.rect.top)
  ELSE Pt(item.rect.left + t.x, item.rect.top + t.y)

\* The ids of the cached items, in their order
CachedOrder(its) == [i \in 1..Len(its) |-> its[i].id]

\* The items are displayed as the reorder of `activeIndex` to `targetIndex`
\* commits them: each item but the active one at the cached position of the
\* slot it has in arrayMove(order, activeIndex, targetIndex), and the active
\* item without a transform
DisplaysReorder(its, t, activeIndex, targetIndex) ==
  LET moved == arrayMove(CachedOrder(its), activeIndex, targetIndex) IN
  /\ \A k \in 0..(Len(its) - 1) :
       k # activeIndex =>
         LET slotOf == IndexOf(moved, its[k + 1].id) IN
         /\ slotOf = (IF activeIndex < k /\ k <= targetIndex THEN k - 1
                      ELSE IF targetIndex <= k /\ k < activeIndex THEN k + 1
                      ELSE k)
         /\ slotOf # targetIndex
         /\ DisplayedAt(its[k + 1], t[its[k + 1].id])
              = Pt(its[slotOf + 1].rect.left, its[slotOf + 1].rect.top)
         /\ \A j \in 0..(Len(its) - 1) :
              (j # k /\ j # activeIndex) =>
                DisplayedAt(its[j + 1], t[its[j + 1].id])
                  # DisplayedAt(its[k + 1], t[its[k + 1].id])
  /\ t[its[activeIndex + 1].id] \in {NoTf, ZeroPt}

\* C27: after applyShifts(active, target) with active # target, both indices of
\* cached items, the items are displayed as the reorder commits them, whatever
\* shifts were applied before: every item but the active one at the slot it
\* has in arrayMove(order, active, target), no two in one slot, the slot
\* `target` vacant, and the active item without a transform.
C27_ShiftsDisplayReorder ==
  [][(/\ lastCall'.name = "applyShifts"
      /\ lastCall'.a # lastCall'.b
      /\ lastCall'.a \in 0..(Len(items'[MainGrid]) - 1)
      /\ lastCall'.b \in 0..(Len(items'[MainGrid]) - 1))
       => DisplaysReorder(items'[MainGrid], tf'[MainGrid], lastCall'.a, lastCall'.b)]_vars

\* ------------------------------------------------------------------------
\* useDragGrid: the overlap candidate
\* ------------------------------------------------------------------------
\* calculateOverlap(activeRect, targetRect), as the overlap's area: the ratio it
\* returns is this area over the area of activeRect, which is the same for
\* every target of one search and is not zero
calculateOverlap(activeRect, targetRect) ==
  LET overlapLeft == Max(activeRect.left, targetRect.left)
      overlapRight == Min(activeRect.left + activeRect.width,
                          targetRect.left + targetRect.width)
      overlapTop == Max(activeRect.top, targetRect.top)
      overlapBottom == Min(activeRect.top + activeRect.height,
                           targetRect.top + targetRect.height)
  IN IF overlapRight <= overlapLeft \/ overlapBottom <= overlapTop THEN 0
     ELSE (overlapRight - overlapLeft) * (overlapBottom - overlapTop)

\* isItemShifted(itemIndex, activeIndex, targetIndex)
isItemShifted(itemIndex, activeIndex, targetIndex) ==
  IF activeIndex = targetIndex THEN FALSE
  ELSE /\ itemIndex > Min(activeIndex, targetIndex)
       /\ itemIndex <= Max(activeIndex, targetIndex)

\* The items findHighestOverlap looks at: neither active nor skipped as shifted
OverlapCandidates(its, activeIndex, targetIndex) ==
  {i \in 1..Len(its) : /\ its[i].index # activeIndex
                       /\ ~isItemShifted(its[i].index, activeIndex, targetIndex)}

\* findHighestOverlap(activeRect, items, activeIndex, targetIndex): the first
\* candidate of the array with the highest ratio above zero, NIL (null) if none
findHighestOverlap(activeRect, its, activeIndex, targetIndex) ==
  LET over0 == {i \in OverlapCandidates(its, activeIndex, targetIndex) :
                  calculateOverlap(activeRect, its[i].rect) > 0}
  IN IF over0 = {} THEN NIL
     ELSE LET i == CHOOSE i \in over0 :
                     \A j \in over0 :
                       \/ calculateOverlap(activeRect, its[j].rect)
                            < calculateOverlap(activeRect, its[i].rect)
                       \/ /\ calculateOverlap(activeRect, its[j].rect)
                               = calculateOverlap(activeRect, its[i].rect)
                          /\ i <= j
          IN [targetId |-> its[i].id, targetIndex |-> its[i].index,
              ratio |-> calculateOverlap(activeRect, its[i].rect)]

\* The rect useDragGrid's handlers build for the dragged item
ActiveRect(st) ==
  [left |-> st.activeItem.rect.left + (st.currentPointer.x - st.startPointer.x),
   top |-> st.activeItem.rect.top + (st.currentPointer.y - st.startPointer.y),
   width |-> st.activeItem.rect.width, height |-> st.activeItem.rect.height,
   center |-> st.activeCenter]

\* The indices of the items GridTransforms.applyShifts(activeIndex, targetIndex)
\* translates
TranslatedBy(its, activeIndex, targetIndex) ==
  {k \in 0..(Len(its) - 1) :
     /\ activeIndex # targetIndex
     /\ ShiftOf(its, its[k + 1], activeIndex, targetIndex) \notin {NIL, ZeroPt}}

\* The overlap a handler of useDragGrid finds during the drag of engine g
OverlapOf(g) ==
  findHighestOverlap(ActiveRect(state[g]), items[g], state[g].activeItem.index,
                     state[g].targetIndex)

\* C28: during a drag, the items findHighestOverlap skips as shifted are the
\* items applyShifts(activeIndex, targetIndex) translates, whether the target is
\* after or before the active item; the candidate it returns is not the active
\* item and carries no shift, and it has the highest ratio above zero among the
\* items that are neither (none is returned if there is none).
C28_OverlapSkipsShifted ==
  \A g \in Grids :
    (state[g] # NIL /\ pending[g] = <<>> /\ items[g] # <<>>) =>
      LET its == items[g]
          a == state[g].activeItem.index
          t == state[g].targetIndex
          rect == ActiveRect(state[g])
          rest == {k \in 0..(Len(its) - 1) : k # a /\ k \notin TranslatedBy(its, a, t)}
      IN /\ {k \in 0..(Len(its) - 1) : k # a /\ isItemShifted(k, a, t)}
              = TranslatedBy(its, a, t)
         /\ OverlapOf(g) # NIL =>
              /\ OverlapOf(g).targetIndex \in rest
              /\ tf[g][OverlapOf(g).targetId] \in {NoTf, ZeroPt}
              /\ OverlapOf(g).ratio > 0
              /\ \A k \in rest :
                   calculateOverlap(rect, its[k + 1].rect) <= OverlapOf(g).ratio
         /\ OverlapOf(g) = NIL =>
              \A k \in rest : calculateOverlap(rect, its[k + 1].rect) = 0

\* ------------------------------------------------------------------------
\* useGrid: the main order and the folders
\* ------------------------------------------------------------------------
\* The main order (useDragGrid's order state) is what the main grid renders
Order(w) == w.dom[MainGrid]

\* useGrid's `folders`: the local folders, or those of the loaded configuration
\* until there are local ones
Folders(w) == IF Len(w.localFolders) > 0 THEN w.localFolders ELSE w.configFolders

\* generateFolderId(): an id no folder and no entry of the order has
NewFolderNames == <<"folder1", "folder2", "folder3">>
NewFolderIds == {NewFolderNames[i] : i \in 1..MaxNewFolders}
UsedIds(w) ==
  SeqToSet(Order(w)) \cup {f.id : f \in SeqToSet(w.localFolders) \cup SeqToSet(w.configFolders)}
    \cup (IF w.openFolder # NIL THEN {w.openFolder.id} ELSE {})
generateFolderId(w) ==
  NewFolderNames[CHOOSE i \in 1..MaxNewFolders :
                   /\ NewFolderNames[i] \notin UsedIds(w)
                   /\ \A j \in 1..(i - 1) : NewFolderNames[j] \in UsedIds(w)]

\* isFolderId(id)
isFolderId(id) == id \in FolderIds \cup NewFolderIds

\* folders.find((f) => f.id === id), NIL when there is none
FindFolder(fs, id) ==
  IF \E i \in 1..Len(fs) : fs[i].id = id
  THEN fs[CHOOSE i \in 1..Len(fs) : fs[i].id = id /\ \A j \in 1..(i - 1) : fs[j].id # id]
  ELSE NIL

\* updateFolderById(folders, id, { appPaths })
updateFolderById(fs, id, appPaths) ==
  [i \in 1..Len(fs) |-> IF fs[i].id = id THEN [fs[i] EXCEPT !.appPaths = appPaths] ELSE fs[i]]

\* Array.prototype.splice(start, deleteCount, ...inserted): the array it leaves
splice(array, start, deleteCount, inserted) ==
  LET from == IF start < 0 THEN Max(Len(array) + start, 0) ELSE Min(start, Len(array))
      count == Min(Max(deleteCount, 0), Len(array) - from)
  IN SubSeq(array, 1, from) \o inserted \o SubSeq(array, from + count + 1, Len(array))

\* dissolveFolder(folderId, order, currentFolders, appsToInsert)
dissolveFolder(folderId, order, currentFolders, appsToInsert) ==
  LET folderIndex == IndexOf(order, folderId)
      newOrder == splice(splice(order, folderIndex, 1, <<>>), folderIndex, 0, appsToInsert)
  IN [newOrder |-> newOrder,
      updatedFolders |-> SelectSeq(currentFolders, LAMBDA f : f.id # folderId)]

\* removeAppFromFolder that dissolves the folder only when no app would remain
removeAppDissolvingWhenEmpty(folderId, appId, order, fs) ==
  LET folder == FindFolder(fs, folderId) IN
  IF folder = NIL THEN [newOrder |-> order, updatedFolders |-> fs, dissolved |-> FALSE]
  ELSE LET remainingApps == SelectSeq(folder.appPaths, LAMBDA id : id # appId) IN
       IF Len(remainingApps) < 1
       THEN LET r == dissolveFolder(folderId, order, fs, Append(remainingApps, appId))
            IN [newOrder |-> r.newOrder, updatedFolders |-> r.updatedFolders,
                dissolved |-> TRUE]
       ELSE [newOrder |-> Append(order, appId),
             updatedFolders |-> updateFolderById(fs, folderId, remainingApps),
             dissolved |-> FALSE]

\* removeAppFromFolder(folderId, appId, order, folders)
removeAppFromFolder(folderId, appId, order, fs) ==
  LET folder == FindFolder(fs, folderId) IN
  IF folder = NIL THEN [newOrder |-> order, updatedFolders |-> fs, dissolved |-> FALSE]
  ELSE LET remainingApps == SelectSeq(folder.appPaths, LAMBDA id : id # appId) IN
       IF Len(remainingApps) <= 1
       THEN LET r == dissolveFolder(folderId, order, fs, Append(remainingApps, appId))
            IN [newOrder |-> r.newOrder, updatedFolders |-> r.updatedFolders,
                dissolved |-> TRUE]
       ELSE [newOrder |-> Append(order, appId),
             updatedFolders |-> updateFolderById(fs, folderId, remainingApps),
             dissolved |-> FALSE]

GridCall(name, source, target, folder) ==
  [name |-> name, a |-> 0, b |-> 0, shifted |-> FALSE,
   source |-> source, target |-> target, folder |-> folder]

\* handleCreateFolder with the folder inserted at the target's index as it was
handleCreateFolderAtTargetIndex(w, sourceAppId, targetAppId) ==
  LET currentOrder == Order(w)
      id == generateFolderId(w)
      newOrder == SelectSeq(currentOrder, LAMBDA e : e # sourceAppId /\ e # targetAppId)
      insertIndex == Min(IndexOf(currentOrder, targetAppId), Len(newOrder))
  IN [w EXCEPT !.localFolders = Append(@, [id |-> id, appPaths |-> <<targetAppId, sourceAppId>>]),
               !.openFolder = [id |-> id, apps |-> <<targetAppId, sourceAppId>>],
               !.dom[MainGrid] = splice(newOrder, insertIndex, 0, <<id>>),
               !.lastCall = GridCall("handleCreateFolder", sourceAppId, targetAppId, id)]

\* useGrid's handleCreateFolder(sourceAppId, targetAppId), with createNewFolder
\* of useFolders
useGrid_handleCreateFolder(w, sourceAppId, targetAppId) ==
  LET currentOrder == Order(w)
      id == generateFolderId(w)
      sourceIndex == IndexOf(currentOrder, sourceAppId)
      targetIndex == IndexOf(currentOrder, targetAppId)
      newOrder == SelectSeq(currentOrder, LAMBDA e : e # sourceAppId /\ e # targetAppId)
      insertIndex == Min(IF sourceIndex < targetIndex THEN targetIndex - 1 ELSE targetIndex,
                         Len(newOrder))
  IN [w EXCEPT !.localFolders = Append(@, [id |-> id, appPaths |-> <<targetAppId, sourceAppId>>]),
               !.openFolder = [id |-> id, apps |-> <<targetAppId, sourceAppId>>],
               !.dom[MainGrid] = splice(newOrder, insertIndex, 0, <<id>>),
               !.lastCall = GridCall("handleCreateFolder", sourceAppId, targetAppId, id)]

\* useGrid's handleAddToFolder(folderId, appId)
useGrid_handleAddToFolder(w, folderId, appId) ==
  LET existingFolder == FindFolder(Folders(w), folderId) IN
  IF existingFolder = NIL THEN w
  ELSE LET updatedAppPaths == Append(existingFolder.appPaths, appId)
       IN [w EXCEPT !.dom[MainGrid] = SelectSeq(@, LAMBDA e : e # appId),
                    !.localFolders = updateFolderById(Folders(w), folderId, updatedAppPaths),
                    !.openFolder = [id |-> folderId, apps |-> updatedAppPaths],
                    !.lastCall = GridCall("handleAddToFolder", appId, NULL, folderId)]

\* useGrid's handleRemoveFromFolder(appId)
useGrid_handleRemoveFromFolder(w, appId) ==
  IF w.openFolder = NIL THEN w
  ELSE IF FindFolder(Folders(w), w.openFolder.id) = NIL THEN w
  ELSE LET r == removeAppFromFolder(w.openFolder.id, appId, Order(w), Folders(w))
       IN [w EXCEPT !.localFolders = r.updatedFolders,
                    !.dom[MainGrid] = r.newOrder,
                    !.openFolder =
                      IF r.dissolved THEN NIL
                      ELSE [id |-> w.openFolder.id,
                            apps |-> FindFolder(r.updatedFolders, w.openFolder.id).appPaths],
                    !.lastCall = GridCall("handleRemoveFromFolder", appId, NULL,
                                          w.openFolder.id)]

\* The onHandoff handler of useGrid (useDragHandoff), on the folders and the order
useGrid_onHandoff(w, itemId) ==
  IF w.openFolder = NIL THEN w
  ELSE IF FindFolder(Folders(w), w.openFolder.id) = NIL THEN w
  ELSE LET r == removeAppFromFolder(w.openFolder.id, itemId, Order(w), Folders(w))
       IN [w EXCEPT !.localFolders = r.updatedFolders,
                    !.dom[MainGrid] = r.newOrder,
                    !.openFolder = NIL,
                    !.lastCall = GridCall("onHandoff", itemId, NULL, w.openFolder.id)]

\* The folders the main grid shows (buildItems): those of the order that exist
ShownFolders(w) ==
  {id \in SeqToSet(Order(w)) : isFolderId(id) /\ FindFolder(Folders(w), id) # NIL}

\* The app starts with no folder, with a folder of the saved configuration, or
\* with a folder converted from a folder on disk
InitGrid ==
  /\ EngineInit({MainGrid})
  /\ cols = [g \in Grids |-> 4]
  /\ registered = <<MainGrid>>
  /\ activeGridId = NULL
  /\ openFolder = NIL
  /\ \E saved \in {"none", "config", "disk"} :
       LET folder == [id |-> "d", appPaths |-> FolderItems]
       IN /\ dom = [g \in Grids |->
                      IF g = MainGrid
                      THEN (IF saved = "none" THEN <<"a", "b", "c">> ELSE <<"a", "b", "d">>)
                      ELSE <<>>]
          /\ configFolders = IF saved = "config" THEN <<folder>> ELSE <<>>
          /\ localFolders = IF saved = "disk" THEN <<folder>> ELSE <<>>

\* an app is dropped on an app after the dwell: onCreateFolder
GridCreateFolder(sourceAppId, targetAppId) ==
  /\ sourceAppId # targetAppId
  /\ {sourceAppId, targetAppId} \subseteq SeqToSet(Order(World))
  /\ ~isFolderId(sourceAppId) /\ ~isFolderId(targetAppId)
  /\ NewFolderIds \ UsedIds(World) # {}
  /\ Commit(useGrid_handleCreateFolder(World, sourceAppId, targetAppId))

\* an app is dropped on a folder: onAddToFolder
GridAddToFolder(folderId, appId) ==
  /\ {folderId, appId} \subseteq SeqToSet(Order(World))
  /\ isFolderId(folderId) /\ ~isFolderId(appId)
  /\ Commit(useGrid_handleAddToFolder(World, folderId, appId))

\* a folder of the grid is clicked: handleOpenFolder
GridOpenFolder(folderId) ==
  /\ folderId \in ShownFolders(World)
  /\ openFolder = NIL
  /\ Commit([World EXCEPT !.openFolder =
               [id |-> folderId, apps |-> FindFolder(Folders(World), folderId).appPaths]])

\* the modal is closed: handleCloseFolder
GridCloseFolder ==
  /\ openFolder # NIL
  /\ Commit([World EXCEPT !.openFolder = NIL])

\* an app of the open folder is dragged out of the modal: handleRemoveFromFolder
GridRemoveFromFolder(appId) ==
  /\ openFolder # NIL
  /\ appId \in SeqToSet(openFolder.apps)
  /\ Commit(useGrid_handleRemoveFromFolder(World, appId))

\* the drag of an app of the open folder is handed off to the main grid
GridHandoff(itemId) ==
  /\ openFolder # NIL
  /\ itemId \in SeqToSet(openFolder.apps)
  /\ Commit(useGrid_onHandoff(World, itemId))

NextGrid ==
  \/ \E s \in ItemIds, t \in ItemIds : GridCreateFolder(s, t)
  \/ \E f \in FolderIds \cup NewFolderIds, e \in ItemIds : GridAddToFolder(f, e)
  \/ \E f \in FolderIds \cup NewFolderIds : GridOpenFolder(f)
  \/ GridCloseFolder
  \/ \E e \in ItemIds : GridRemoveFromFolder(e)
  \/ \E e \in ItemIds : GridHandoff(e)

SpecGrid == InitGrid /\ [][NextGrid]_vars

\* The sequence without the entries of set S
Without(seq, S) == SelectSeq(seq, LAMBDA e : e \notin S)
\* The folders of the list other than folder id
OtherFolders(fs, id) == SelectSeq(fs, LAMBDA f : f.id # id)

\* C29: creating a folder from the dragged app S on the target app T (distinct
\* apps of the main order) leaves an order without S and T, one shorter, with
\* the new folder where T was (as many entries before it as entries other than
\* S were before T) and the other entries in their order, and the new folder
\* holds exactly T and S; adding an app to a folder takes the app out of the
\* order, appends it to the folder's apps, and leaves the rest of the order and
\* the other folders as they were.
C29_FolderDropUpdatesOrder ==
  [][/\ lastCall'.name = "handleCreateFolder" =>
          LET S == lastCall'.source
              T == lastCall'.target
              F == lastCall'.folder
              old == dom[MainGrid]
              new == dom'[MainGrid]
          IN /\ S \notin SeqToSet(new) /\ T \notin SeqToSet(new)
             /\ F \notin SeqToSet(old)
             /\ IndexOf(new, F)
                  = Cardinality({i \in 1..IndexOf(old, T) : old[i] # S})
             /\ Without(new, {F}) = Without(old, {S, T})
             /\ Len(new) = Len(old) - 1
             /\ FindFolder(Folders(World'), F) # NIL
             /\ FindFolder(Folders(World'), F).appPaths = <<T, S>>
     /\ lastCall'.name = "handleAddToFolder" =>
          LET app == lastCall'.source
              F == lastCall'.folder
          IN /\ dom'[MainGrid] = Without(dom[MainGrid], {app})
             /\ Len(dom'[MainGrid]) = Len(dom[MainGrid]) - 1
             /\ FindFolder(Folders(World'), F).appPaths
                  = Append(FindFolder(Folders(World), F).appPaths, app)
             /\ OtherFolders(Folders(World'), F) = OtherFolders(Folders(World), F)
             /\ Len(Folders(World')) = Len(Folders(World))]_vars

\* A folder was created from an app that stood before its target
C29_CreatedFromEarlierApp ==
  /\ lastCall.name = "handleCreateFolder"
  /\ lastCall.source = "a" /\ lastCall.target = "c"
  /\ dom[MainGrid] = <<"b", lastCall.folder>>
  /\ \E f \in SeqToSet(Folders(World)) : f.id = lastCall.folder /\ f.appPaths = <<"c", "a">>

\* The ids of the folders of a list
FolderIdsOf(fs) == {fs[i].id : i \in 1..Len(fs)}

InitLayout ==
  /\ EngineInit({"main-grid"})
  /\ NoFolders
  /\ \E n \in 1..Len(MainItems) :
       dom = [g \in Grids |-> IF g = "main-grid" THEN SubSeq(MainItems, 1, n) ELSE <<>>]
  /\ cols \in {[g \in Grids |-> c] : c \in 1..Len(MainItems)}
  /\ registered = <<"main-grid">>
  /\ activeGridId = NULL

LayoutPointerDown(e) == gestures < DragGestures /\ PointerDown("main-grid", e)

\* Pointer positions of these scenes: the centers of the first column's and the
\* first row's first two slots
LayoutPoints == {ItemCenter("main-grid", 2, i) : i \in 0..2}

NextLayout ==
  \/ \E e \in ItemIds : LayoutPointerDown(e)
  \/ \E p \in LayoutPoints : PointerMove(p, FALSE)
  \/ \E answer \in {"undefined", "null"} : PointerUp(answer)
  \/ PointerCancel
  \/ \E g \in Grids : AnimationTimer(g)

SpecLayout == InitLayout /\ [][NextLayout]_vars

\* The items of a snapshot that lie on its first row
FirstRow(its) == {i \in 1..Len(its) : its[i].rect.top = its[1].rect.top}

\* C31: the scenes are uniform grids. While a SlotDetection holds a layout, its
\* column count is the number of items on the first row of its snapshot and
\* getSlotCenter(i) is the snapshot center of item i, for every index of the
\* snapshot; while it holds none (before initialize, after reset),
\* getSlotCenter(i) is the center of the item it holds at i, or (0,0).
C31_SlotCenterIsItemCenter ==
  \A g \in Grids :
    LET sl == slot[g] IN
    IF sl.layout # NIL
    THEN /\ sl.layout.columns = Cardinality(FirstRow(sl.items))
         /\ \A i \in 0..(Len(sl.items) - 1) :
              getSlotCenter(sl, i) = sl.items[i + 1].rect.center
    ELSE \A i \in -1..Len(MainItems) :
           \/ getSlotCenter(sl, i) = ZeroPt
           \/ i \in 0..(Len(sl.items) - 1) /\ getSlotCenter(sl, i) = sl.items[i + 1].rect.center

\* A drag is under way in a grid of four items whose second row holds one item
C31_LayoutOfPartialLastRow ==
  /\ state[MainGrid] # NIL
  /\ slot[MainGrid].layout # NIL
  /\ slot[MainGrid].layout.columns = 3
  /\ Len(slot[MainGrid].items) = 4
  /\ slot[MainGrid].targetIndex # slot[MainGrid].activeIndex

\* ------------------------------------------------------------------------
\* Resumed drags: the first move after startDragAt
\* ------------------------------------------------------------------------
\* Pointer positions of these scenes: one inside the folder modal's container,
\* and outside of it the center of the main grid's first item
ResumePoints == {ItemCenter("folder-modal", 2, 1), ItemCenter("main-grid", 2, 0)}

\* The host hands the drag off from its onDragMove handler only
NextResume ==
  \/ \E e \in ItemIds : HandoffPointerDown(e)
  \/ \E p \in ResumePoints, react \in BOOLEAN : PointerMove(p, react)
  \/ \E answer \in {"undefined", "null"} : PointerUp(answer)
  \/ PointerCancel
  \/ \E g \in Grids : AnimationTimer(g)
  \/ \E i \in 1..MaxCalls, outcome \in {"moved", "unchanged", "throws"} :
       HandoffCallback(i, outcome)
  \/ \E i \in 1..MaxCalls : HandoffFrame(i)
  \/ \E i \in 1..MaxCalls : HandoffResume(i)

SpecResume == Init /\ [][NextResume]_vars

\* Engine g holds a drag it resumed with an adopted ghost and has not moved yet,
\* and this step is a move event at the pointer position of the handoff
FirstMoveInPlace(g) ==
  /\ pointerDown
  /\ Dragging(g) /\ AdoptedDrag(tracker[g]) /\ tracker[g].isDragging
  /\ ghost[g] # NULL
  /\ state[g].previousPointer = state[g].currentPointer
  /\ state[g].targetIndex = state[g].activeItem.index
  /\ state'[g] # NIL
  /\ state'[g].activeItem = state[g].activeItem
  /\ state'[g].currentPointer = state[g].currentPointer
  /\ EventsOn(emitted', g, "onDragMove") # {}

\* C32: a first move event at the pointer position of the handoff leaves the
\* target index of a resumed drag at the resumed item's index and emits no
\* onIndexChange, wherever the adopted ghost is.
C32_ResumedTargetNeedsMotion ==
  [][\A g \in Grids :
       FirstMoveInPlace(g) =>
         /\ state'[g].targetIndex = state[g].activeItem.index
         /\ EventsOn(emitted', g, "onIndexChange") = {}]_vars

\* ------------------------------------------------------------------------
\* Termination of a drag after the pointer is released or cancelled
\* ------------------------------------------------------------------------
\* The steps the browser takes on its own: pending timers, the settling of the
\* host's onHandoff promise and the animation frames. Pointer events are the
\* user's and are not required to happen.
BrowserSteps ==
  \/ \E g \in Grids : AnimationTimer(g)
  \/ \E i \in 1..MaxCalls, outcome \in {"moved", "unchanged", "throws"} :
       HandoffCallback(i, outcome)
  \/ \E i \in 1..MaxCalls : HandoffFrame(i)
  \/ \E i \in 1..MaxCalls : HandoffResume(i)

SpecResumeLive == SpecResume /\ WF_vars(BrowserSteps)

\* C33: once no pointer is down, every engine eventually holds no drag - with
\* no further pointer event, and also when the release or the cancel came
\* while a handoff was in flight.
C33_ReleasedDragTerminates ==
  (~pointerDown) ~> (\A g \in Grids : state[g] = NIL)

\* ------------------------------------------------------------------------
\* The target index never returns to the active item's index
\* ------------------------------------------------------------------------
\* The indices of the onDragEnd events of a step on engine g
DragEndsOf(ev, g) == {<<ev[i].a, ev[i].b>> : i \in EventsOn(ev, g, "onDragEnd")}

\* C34: update never yields the active item's index. A target index that moved
\* off the active item's index stays off it for the rest of the drag; every
\* onIndexChange(from, to) has to # from; the indices a drop captures at the
\* release are the drag's, and those onDragEnd reports are the captured ones: a
\* drag whose index changed ends with onDragEnd(from, to) where to # from.
C34_TargetNeverReturns ==
  /\ [](\A g \in Grids, p \in DragPoints :
          updateResult(slot[g], p) = NoIndex \/ updateResult(slot[g], p) # slot[g].activeIndex)
  /\ [][\A g \in Grids :
          /\ (DragMoves(g) /\ ~DragStarts(g) /\ slot[g].targetIndex # slot[g].activeIndex)
               => /\ slot'[g].activeIndex = slot[g].activeIndex
                  /\ slot'[g].targetIndex # slot'[g].activeIndex
          /\ \A i \in EventsOn(emitted', g, "onIndexChange") : emitted'[i].b # emitted'[i].a
          /\ Len(pending'[g]) > Len(pending[g])
               => /\ state[g] # NIL
                  /\ pending'[g][Len(pending'[g])].fromIndex = state[g].activeItem.index
                  /\ pending'[g][Len(pending'[g])].toIndex = state[g].targetIndex
          /\ DragEndsOf(emitted', g) # {}
               => IF Len(pending'[g]) < Len(pending[g])
                  THEN DragEndsOf(emitted', g)
                         = {<<Head(pending[g]).fromIndex, Head(pending[g]).toIndex>>}
                  ELSE /\ state[g] # NIL
                       /\ DragEndsOf(emitted', g)
                            = {<<state[g].activeItem.index, state[g].targetIndex>>}]_vars

\* The dragged center is back on the center of the item's own slot after the
\* target index moved off it, and the drop that follows reports the moved index
C34_BackOverOwnSlot ==
  /\ state[MainGrid] # NIL
  /\ state[MainGrid].activeCenter = state[MainGrid].activeItem.rect.center
  /\ state[MainGrid].targetIndex # state[MainGrid].activeItem.index
  /\ pending[MainGrid] # <<>>
  /\ Head(pending[MainGrid]).toIndex # Head(pending[MainGrid]).fromIndex

\* ------------------------------------------------------------------------
\* The coordinator's registrations during a handoff
\* ------------------------------------------------------------------------
\* DragCoordinator.destroy()
DragCoordinator_destroy(w) ==
  [w EXCEPT !.registered = <<>>, !.activeGridId = NULL, !.isHandingOff = FALSE]

\* a host's effect registers the grid of a mounted engine
MountedRegister(g) == events[g] /\ CoordinatorRegister(g)

\* a host calls setActiveGrid with the id of a registered grid, or with null
SetRegisteredActive(g) ==
  /\ g = NULL \/ IsRegistered(World, g)
  /\ CoordinatorSetActiveGrid(g)

\* a host calls coordinator.destroy()
CoordinatorDestroy ==
  /\ registered # <<>>
  /\ Commit(DragCoordinator_destroy(World))

NextCoordinator ==
  \/ \E g \in Grids : MountedRegister(g)
  \/ \E g \in Grids : CoordinatorUnregister(g)
  \/ \E g \in Grids \cup {NULL} : SetRegisteredActive(g)
  \/ CoordinatorDestroy
  \/ \E e \in ItemIds : HandoffPointerDown(e)
  \/ \E p \in HandoffPoints, react \in BOOLEAN : PointerMove(p, react)
  \/ \E i \in 1..MaxCalls, outcome \in {"moved", "unchanged", "throws"} :
       HandoffCallback(i, outcome)
  \/ \E i \in 1..MaxCalls : HandoffFrame(i)
  \/ \E i \in 1..MaxCalls : HandoffResume(i)

SpecCoordinator == Init /\ [][NextCoordinator]_vars

\* C35: the active grid is null or a registered grid, and isHandingOff is set
\* only while a handoff call is executing, in every state of every
\* interleaving of register, unregister, destroy and a handoff in flight.
C35_ActiveGridIsRegistered ==
  /\ activeGridId = NULL \/ IsRegistered(World, activeGridId)
  /\ isHandingOff => calls # <<>>

\* ------------------------------------------------------------------------
\* Conservation of apps and folders under reorders and folder operations
\* ------------------------------------------------------------------------
\* a drop on the main grid that is a plain reorder: useDragGrid's reorder()
GridReorder(fromIndex, toIndex) ==
  /\ fromIndex # toIndex
  /\ {fromIndex, toIndex} \subseteq 0..(Len(Order(World)) - 1)
  /\ Commit([World EXCEPT !.dom[MainGrid] = arrayMove(@, fromIndex, toIndex),
                          !.lastCall = GridCall("reorder", NULL, NULL, NULL)])

NextConserve ==
  \/ NextGrid
  \/ \E fromIndex \in 0..Len(MainItems), toIndex \in 0..Len(MainItems) :
       GridReorder(fromIndex, toIndex)

SpecConserve == InitGrid /\ [][NextConserve]_vars

\* Occurrences of an id in a list
CountIn(seq, id) == Cardinality({i \in 1..Len(seq) : seq[i] = id})
RECURSIVE CountInFolders(_, _)
CountInFolders(fs, id) ==
  IF fs = <<>> THEN 0 ELSE CountIn(Head(fs).appPaths, id) + CountInFolders(Tail(fs), id)
\* Occurrences of an app in the main order and in the folders' app lists
Occurrences(w, app) == CountIn(Order(w), app) + CountInFolders(Folders(w), app)
\* The apps of a scene
AppsOf(w) == {id \in ItemIds \ FolderIds : Occurrences(w, id) > 0}

\* C36: no operation loses or duplicates an app or a folder. Every app occurs
\* once in the main order and the folders' app lists together, before and after
\* every step, and the id of every folder of `folders` occurs once in the main
\* order.
C36_ItemsConserved ==
  /\ [](\A app \in ItemIds \ FolderIds : Occurrences(World, app) <= 1)
  /\ [](\A id \in FolderIdsOf(Folders(World)) : CountIn(Order(World), id) = 1)
  /\ [][AppsOf(World)' = AppsOf(World)]_vars

\* ------------------------------------------------------------------------
\* A drag that ends without a drop, and the folder-creation policy
\* ------------------------------------------------------------------------
\* The 'create-folder' indicator is displayed, for whichever app
CreateFolderDisplayed == \E id \in ItemIds : CreateFolderShown(id)

\* C37: the step that cancels a drag leaves no dwell timer pending and no drop
\* indicator displayed, and while no drag is active no dwell timer is pending
\* and the 'create-folder' indicator is not displayed.
C37_CancelClearsDwell ==
  /\ [][lastCall'.name = "onDragCancel" => timers' = {} /\ dropTarget' = NIL]_vars
  /\ [](activeId = NULL => timers = {} /\ ~CreateFolderDisplayed)

\* ------------------------------------------------------------------------
\* Ghost elements in the DOM
\* ------------------------------------------------------------------------
\* No handoff call is in flight
NoHandoffInFlight == calls = <<>> /\ ~isHandingOff

\* C38: every ghost element in the DOM is the ghost of an engine or is held by
\* a handoff in flight, so that the engines' ghosts are all there are; and
\* while an engine holds no DragState and no handoff is in flight, it has no
\* ghost and, when no other engine has one, the DOM holds no ghost element.
C38_NoGhostLeaked ==
  /\ \A el \in body : EngineHolders(el) # {} \/ CallHolders(el) # {}
  /\ Cardinality(body) <= Cardinality({g \in Grids : ghost[g] # NULL}) + Len(calls)
  /\ \A g \in Grids : (state[g] = NIL /\ NoHandoffInFlight) => ghost[g] = NULL
  /\ ((\A g \in Grids : state[g] = NIL) /\ NoHandoffInFlight) => body = {}

====
